---- MODULE Spec2Model ----
(***************************************************************************)
(* Model of the embed resolver of scraper.py (resolve_embed_to_direct).    *)
(*                                                                         *)
(* A URL is a sequence of tokens: "https://host.example/embed/xyz" is      *)
(* <<"https:", "//", "host.example", "/", "embed", "/", "xyz">>.  The      *)
(* string operations of the code (startswith, substring test, lower,       *)
(* concatenation, split/join) are operators on these sequences.            *)
(*                                                                         *)
(* A page is the response to a GET: a status and the elements of the       *)
(* parsed document in document order.  Remote content is static: the       *)
(* response to a URL is chosen when the URL is first fetched and is the    *)
(* same on every later fetch.                                              *)
(***************************************************************************)
EXTENDS Integers, Sequences, FiniteSets, TLC

\* ------------------------------------------------------------------ bounds
MaxDepth == 2
BelowZero == 1
MaxStack == 4
Runs == 2
MaxFeatures == 2
MaxServers == 2
MaxEpisodes == 11
MaxPages == 2
MaxItems == 1
MaxCandidates == 3

\* ------------------------------------------------------------------ state
VARIABLES
  top,      \* the arguments of the top-level call: [url, depth]
  stack,    \* the activations of resolve_embed_to_direct, innermost last
  results,  \* what the top-level calls made so far gave their caller
  pages,    \* the responses of the URLs fetched so far
  gets,     \* the GETs issued so far: [run, url, depth, level]
  caller,   \* the extractor running the resolve pass over its servers
  servers,  \* the servers the extractor found on its page
  resolved_servers,  \* the list the resolve pass builds
  passed,   \* the calls of resolve the pass has made: [url, depth, ret]
  data_servers,      \* the servers of the record the extractor returns
  other,    \* the suspended one of two concurrent calls: [top, stack, results]
  include_servers,     \* the flag of the series detail request
  episodes,            \* the episodes of the series: [state, servers]
  semaphore_episodes,  \* the value of the semaphore of the fan-out
  phase,    \* the position of the series detail extractor
  parsed_episodes, \* series_detail.episodes as parse_series_detail left it
  request,     \* the movie search request: [term_ok, language, max_pages]
  current_url, \* the number of the search page to scrape next, 0 for None
  page_count,  \* the search pages scraped
  movies_list, \* the number of movies collected
  raised,      \* the exceptions raised for the request, oldest first
  response,    \* the status the client gets, 0 while the request runs
  search_gets, \* the search pages fetched: [url, next], oldest first
  listing,     \* the listing call: [kind, page, year_ok, query_ok]
  list_gets,   \* the GETs the listing call issued
  list_page,   \* what scrape_page ended with: <<>> or <<[o, found, next]>>
  list_status, \* the status the listing call ends with, 0 while it runs
  ep_request,   \* the episode call: [args_ok, language]
  ep_tried,     \* the candidate URLs fetched with what they answered
  last_error,   \* <<>> or the last exception recorded, as a sequence of one
  episode_data, \* 0, or the number of the candidate whose page was parsed
  ep_status,    \* the outcome of the candidate loop, 0 while it runs
  an_stack,  \* the activations of scrape_anime_series_detail, innermost last
  an_log,    \* the series pages fetched and the searches made, oldest first
  an_status, \* the status the top-level call ends with, 0 while it runs
  type_url,    \* the URL get_server_type is called with
  server_type, \* what get_server_type returned, "" before the call
  candidate_links,      \* the candidate references collected from the page
  tc_idx,               \* the next candidate of the loop, 0 when idle
  processed_candidates, \* the normalised candidates seen so far
  streaming_links,      \* the links kept so far
  toon_calls,           \* the URLs resolve was called with in the pass
  toon_servers,         \* the server list built from streaming_links
  toon_phase            \* "idle", "candidates", "servers"

\* the state of the resolver and the state of its callers
resolver == <<top, stack, results, pages, gets>>
passVars == <<caller, servers, resolved_servers, passed, data_servers>>
concVars == <<other>>
fanVars ==
  <<include_servers, episodes, semaphore_episodes, phase, parsed_episodes>>
searchVars ==
  <<request, current_url, page_count, movies_list, raised, response, search_gets>>
listVars == <<listing, list_gets, list_page, list_status>>
epVars == <<ep_request, ep_tried, last_error, episode_data, ep_status>>
animeVars == <<an_stack, an_log, an_status>>
typeVars == <<type_url, server_type>>
toonVars ==
  <<candidate_links, tc_idx, processed_candidates, streaming_links,
    toon_calls, toon_servers, toon_phase>>
extra == <<listVars, epVars, animeVars, typeVars, toonVars>>
callers == <<passVars, concVars, fanVars, searchVars, extra>>

vars == <<resolver, callers>>

\* ------------------------------------------------------------ basic values
None == <<>>
Raised == <<"!exception">>

\* ------------------------------------------------------------- string model
\* str.lower() on one token
LowerTok(t) ==
  CASE t = ".MP4" -> ".mp4"
    [] t = "HTTPS:" -> "https:"
    [] t = "Embed" -> "embed"
    [] OTHER -> t

Lower(u) == [i \in DOMAIN u |-> LowerTok(u[i])]

\* the words of the code's keyword lists that occur inside a token
Subs(t) ==
  {t} \cup
  (CASE t = "cdn.example" -> {"cdn"}
     [] t = "cdn2.example" -> {"cdn"}
     [] t = "facebook.com" -> {"facebook"}
     [] t = "dood.example" -> {"dood"}
     [] t = "streamtape.com" -> {"streamtape", "stream"}
     [] t = "mixdrop.co" -> {"mixdrop"}
     [] t = "vidstream.example" -> {"vidstream", "stream"}
     [] t = "uploads" -> {"ads"}
     [] t = "videos" -> {"video"}
     [] t = "drive.google.com" -> {"drive.google", "google"}
     [] t = "?trembed=" -> {"trembed=", "trembed"}
     [] OTHER -> {})

\* `word in url`
HasWord(u, word) == \E i \in DOMAIN u : word \in Subs(u[i])

\* `any(w in url for w in words)`
HasAny(u, words) == \E w \in words : HasWord(u, w)

\* `'/seg/' in url`
HasPath(u, seg) ==
  \E i \in DOMAIN u :
     /\ i + 2 <= Len(u)
     /\ u[i] \in {"/", "//"}
     /\ u[i + 1] = seg
     /\ u[i + 2] \in {"/", "//"}

StartsWithPR(u) == Len(u) > 0 /\ u[1] = "//"
StartsWithSlash(u) == Len(u) > 0 /\ u[1] \in {"/", "//"}
\* `s.startswith('http')`: true of a scheme and of any other first part of
\* a reference that begins with these four letters
StartsWithHttp(u) == Len(u) > 0 /\ u[1] \in {"http:", "https:", "httpdocs"}

\* the regex prefix https?:// (under re.IGNORECASE)
HttpScheme(u) ==
  Len(u) > 2 /\ LowerTok(u[1]) \in {"http:", "https:"} /\ u[2] = "//"

\* '/'.join(embed_url.split('/')[:3])
BaseUrl(embed) == SubSeq(embed, 1, 3)

\* 'https:' + src for //host/path
AddScheme(src) == <<"https:">> \o src

NormalizePR(src) == IF StartsWithPR(src) THEN AddScheme(src) ELSE src

\* the test for / made before the test for //
Normalize_slashfirst(src, embed) ==
  IF StartsWithSlash(src) THEN BaseUrl(embed) \o src
  ELSE IF StartsWithPR(src) THEN AddScheme(src)
  ELSE src

\* the `//` / `/` normalisation of the generic strategies
Normalize(src, embed) ==
  IF StartsWithPR(src) THEN AddScheme(src)
  ELSE IF StartsWithSlash(src) THEN BaseUrl(embed) \o src
  ELSE src

\* ------------------------------------------------------- keyword lists
non_video_extensions ==
  {".css", ".js", ".json", ".xml", ".txt", ".pdf", ".zip", ".rar",
   ".jpg", ".jpeg", ".png", ".gif", ".svg", ".ico"}

non_video_keywords ==
  {"wp-content", "wp-includes", "themes", "plugins", "assets", "static",
   "css", "js", "fonts", "images"}

\* the static-asset path test left out
NonVideo_extonly(u) == HasAny(Lower(u), non_video_extensions)

\* a set of visited URLs kept between calls, a visited URL is skipped
NonVideo_visited(u) ==
  \/ HasAny(Lower(u), non_video_extensions)
  \/ \E seg \in non_video_keywords : HasPath(Lower(u), seg)
  \/ \E i \in DOMAIN gets : gets[i].url = u /\ gets[i].run < Len(results) + 1

\* a set of URLs in work shared by all calls, a URL in it is skipped
NonVideo_shared(u) ==
  \/ HasAny(Lower(u), non_video_extensions)
  \/ \E seg \in non_video_keywords : HasPath(Lower(u), seg)
  \/ u \in DOMAIN pages

NonVideo(u) ==
  \/ HasAny(Lower(u), non_video_extensions)
  \/ \E seg \in non_video_keywords : HasPath(Lower(u), seg)

\* the depth test off by one
DepthExhausted_below(d) == d < 0

\* the depth test one too early
DepthExhausted_one(d) == d <= 1

\* the depth test left out
DepthExhausted_never(d) == FALSE

DepthExhausted(d) == d <= 0

exclude_domains ==
  {"facebook", "twitter", "instagram", "google", "ads", "advertisement"}

source_extensions == {".mp4", ".m3u8", ".webm", ".mkv", ".flv"}

video_indicators ==
  {".mp4", ".m3u8", ".webm", ".mkv", ".flv", "video", "stream", "cdn",
   "media", "dood", "streamtape", "mixdrop"}

exclude_keywords ==
  {"analytics", "tracking", "advert", "ads", "facebook", "twitter",
   "instagram", "google-analytics", "doubleclick"}

data_indicators == {".mp4", ".m3u8", ".webm", "video", "stream", "cdn"}

data_exclude_keywords == {"analytics", "tracking", "advert", "ads"}

\* ------------------------------------------------------------ page model
\* an element of the parsed document: tag, attributes in source order as
\* <<name, value>> pairs, script text as a sequence of assignments
\* [key, val] (key "quoted" is a bare string literal), and the index of the
\* enclosing element (0 at top level)
El(tag, attrs) == [tag |-> tag, attrs |-> attrs, text |-> <<>>, parent |-> 0]
Child(tag, attrs, p) == [tag |-> tag, attrs |-> attrs, text |-> <<>>, parent |-> p]
Script(text) == [tag |-> "script", attrs |-> <<>>, text |-> text, parent |-> 0]
St(key, val) == [key |-> key, val |-> val]

Page(status, elems) == [status |-> status, elems |-> elems]

\* smallest element of a set of naturals, 0 when empty
MinOf(S) ==
  CHOOSE m \in {IF Q = {} THEN 0 ELSE CHOOSE i \in Q : \A j \in Q : i <= j :
                  Q \in {S}} : TRUE

\* tag.get(name)
Attr(el, name) ==
  LET S == {i \in DOMAIN el.attrs : el.attrs[i][1] = name}
  IN IF S = {} THEN None ELSE el.attrs[MinOf(S)][2]

\* tag.get(n1) or tag.get(n2) or ...
FirstAttr(el, names) ==
  LET S == {k \in DOMAIN names : Attr(el, names[k]) # None}
  IN IF S = {} THEN None ELSE Attr(el, names[MinOf(S)])

\* soup.find(tag): index of the first element with the tag, 0 when absent
Find(page, tag) == MinOf({i \in DOMAIN page.elems : page.elems[i].tag = tag})

\* soup.find_all(tag)
FindAll(page, tag) == SelectSeq(page.elems, LAMBDA e : e.tag = tag)

RECURSIVE Flat(_)
Flat(ss) == IF ss = <<>> THEN <<>> ELSE Head(ss) \o Flat(Tail(ss))

\* response.text as the sequence of its quoted values with what precedes
\* them: attribute values and script assignments, in document order
Quoted(page) ==
  Flat([i \in DOMAIN page.elems |->
          [k \in DOMAIN page.elems[i].attrs |->
              St(page.elems[i].attrs[k][1], page.elems[i].attrs[k][2])]
          \o page.elems[i].text])

\* ------------------------------------------- generic strategies (pure part)
\* the <source> children are not looked at
VideoScan_nosources(page, embed) ==
  LET vi == Find(page, "video")
      own == FirstAttr(page.elems[vi], <<"src", "data-src", "data-url">>)
  IN IF vi # 0 /\ own # None /\ StartsWithHttp(Normalize(own, embed))
     THEN Normalize(own, embed) ELSE None

\* Priority 1: <video> and its <source> children
VideoScan(page, embed) ==
  LET vi == Find(page, "video")
  IN IF vi = 0 THEN None
     ELSE
       LET own == FirstAttr(page.elems[vi], <<"src", "data-src", "data-url">>)
           nown == Normalize(own, embed)
           ok(i) ==
             /\ page.elems[i].tag = "source"
             /\ page.elems[i].parent = vi
             /\ LET s == FirstAttr(page.elems[i], <<"src", "data-src">>)
                    n == Normalize(s, embed)
                IN /\ s # None
                   /\ StartsWithHttp(n)
                   /\ HasAny(Lower(n), source_extensions)
           si == MinOf({i \in DOMAIN page.elems : ok(i)})
       IN IF own # None /\ StartsWithHttp(nown) THEN nown
          ELSE IF si = 0 THEN None
          ELSE Normalize(FirstAttr(page.elems[si], <<"src", "data-src">>), embed)

\* Priority 2: the target an iframe element gives, None when it is skipped
IframeTarget(el, embed) ==
  LET s == FirstAttr(el, <<"src", "data-src", "data-url", "data-frame">>)
      n == Normalize(s, embed)
  IN IF s # None /\ StartsWithHttp(n) /\ ~HasAny(Lower(n), exclude_domains)
     THEN n ELSE None

\* Priority 3: the ordered regular expressions, each as the set of keys an
\* assignment must end with and the extensions the value must contain
AnyKey ==
  {"quoted", "file", "src", "url", "video", "stream", "source", "fileurl",
   "video_url", "videoUrl", "getElementById.src", "setAttribute.src",
   "iframe.src", "player.src", "sources[", "jwplayer.setup.file",
   "var pass_md5", "var video_url", "get_video", "robotlink", "MDCore.wurl",
   "window.location.href", "window.location.replace", "poster"}

Pat(keys, exts) == [keys |-> keys, exts |-> exts]

script_patterns ==
  << Pat(AnyKey, source_extensions),
     Pat({"src", "getElementById.src", "iframe.src", "player.src"},
         {".mp4", ".m3u8", ".webm", ".mkv"}),
     Pat({"file", "jwplayer.setup.file"}, {}),
     Pat({"url", "fileurl", "video_url", "videoUrl", "var video_url"}, {}),
     Pat({"video", "get_video"}, {}),
     Pat({"stream"}, {}),
     Pat({"source"}, {}),
     Pat({"fileurl"}, {}),
     Pat({"video_url", "var video_url"}, {}),
     Pat({"videoUrl"}, {}),
     Pat({"getElementById.src"}, {}),
     Pat({"setAttribute.src"}, {}),
     Pat({"iframe.src"}, {}),
     Pat({"player.src"}, {}),
     Pat({"sources["}, {".mp4"}),
     Pat({"jwplayer.setup.file"}, {}) >>

\* re.findall(pattern, text, re.IGNORECASE) finds the assignment
PatMatches(pat, st) ==
  /\ st.key \in pat.keys
  /\ HttpScheme(st.val)
  /\ pat.exts = {} \/ HasAny(Lower(st.val), pat.exts)

\* the test for the excluded keywords left out
ScriptUrlOk_noexclude(url) ==
  /\ url # None
  /\ StartsWithHttp(url)
  /\ HasAny(Lower(url), video_indicators)

\* the three tests a script match has to pass
ScriptUrlOk(url) ==
  /\ url # None
  /\ StartsWithHttp(url)
  /\ HasAny(Lower(url), video_indicators)
  /\ ~HasAny(Lower(url), exclude_keywords)

\* the first accepted match of one script: patterns in order, matches of a
\* pattern in text order
ScriptHit(text) ==
  LET hits == {h \in (DOMAIN script_patterns) \X (DOMAIN text) :
                 /\ PatMatches(script_patterns[h[1]], text[h[2]])
                 /\ ScriptUrlOk(text[h[2]].val)}
      p == MinOf({h[1] : h \in hits})
      k == MinOf({h[2] : h \in {g \in hits : g[1] = p}})
  IN IF hits = {} THEN None ELSE text[k].val

ScriptScan(page) ==
  LET scripts == FindAll(page, "script")
      s == MinOf({i \in DOMAIN scripts : ScriptHit(scripts[i].text) # None})
  IN IF s = 0 THEN None ELSE ScriptHit(scripts[s].text)

\* Priority 4: data-* attributes of any element
IsDataAttr(name) ==
  name \in {"data-src", "data-url", "data-frame", "data-video", "data-file"}

DataValueOk(v) ==
  /\ StartsWithHttp(v)
  /\ HasAny(Lower(v), data_indicators)
  /\ ~HasAny(Lower(v), data_exclude_keywords)

DataScan(page) ==
  LET hit(e) == MinOf({k \in DOMAIN e.attrs :
                         IsDataAttr(e.attrs[k][1]) /\ DataValueOk(e.attrs[k][2])})
      i == MinOf({j \in DOMAIN page.elems : hit(page.elems[j]) # 0})
  IN IF i = 0 THEN None
     ELSE page.elems[i].attrs[hit(page.elems[i])][2]

\* Priority 5: <a href="...m3u8...">
AnchorScan(page, embed) ==
  LET ok(e) ==
        /\ e.tag = "a"
        /\ HasWord(Lower(Attr(e, "href")), ".m3u8")
        /\ StartsWithHttp(Normalize(Attr(e, "href"), embed))
      i == MinOf({j \in DOMAIN page.elems : ok(page.elems[j])})
  IN IF i = 0 THEN None ELSE Normalize(Attr(page.elems[i], "href"), embed)

\* Priority 6: the redirect target of one script, None when it has none
RedirectTarget(script) ==
  LET k == MinOf({j \in DOMAIN script.text :
                    /\ script.text[j].key \in
                         {"window.location.href", "window.location.replace"}
                    /\ HttpScheme(script.text[j].val)})
  IN IF k # 0 /\ StartsWithHttp(script.text[k].val)
     THEN script.text[k].val ELSE None

\* ------------------------------------------- provider-specific extraction
\* which provider blocks the URL enters (substring tests on the lowered URL)
Providers == <<"dood", "streamtape", "mixdrop", "vidstream", "trembed">>

ProviderMatches(p, u) ==
  LET l == Lower(u)
  IN CASE p = "dood" -> HasWord(l, "dood")
       [] p = "streamtape" -> HasWord(l, "streamtape.com") \/ HasWord(l, "streamtape.to")
       [] p = "mixdrop" -> HasWord(l, "mixdrop")
       [] p = "vidstream" -> HasWord(l, "vidstream") \/ HasWord(l, "vidcloud")
       [] p = "trembed" -> HasWord(l, "trembed") \/ HasPath(l, "embed")

\* the next block the URL enters after block number k (0: from the start);
\* Len(Providers) + 1 stands for the standard resolution
NextStage(u, k) ==
  LET S == {j \in DOMAIN Providers : j > k /\ ProviderMatches(Providers[j], u)}
  IN IF S = {} THEN Len(Providers) + 1 ELSE MinOf(S)

\* the regex prefix https?:// without re.IGNORECASE
HttpSchemeCS(u) == Len(u) > 2 /\ u[1] \in {"http:", "https:"} /\ u[2] = "//"

\* re.search of a keyed pattern over response.text: index of the first match
FirstMatch(q, pat) == MinOf({i \in DOMAIN q : PatMatches(pat, q[i])})

\* "dood" and after it .mp4 or .m3u8 inside one quoted https?:// value
DoodQuoted(v) ==
  /\ HttpScheme(v)
  /\ \E i \in DOMAIN v, j \in DOMAIN v :
        /\ 2 < i /\ i < j
        /\ "dood" \in Subs(LowerTok(v[i]))
        /\ LowerTok(v[j]) \in {".mp4", ".m3u8"}

\* a list of alternative patterns: for each in order, the first match is
\* normalised and returned when it starts with http
AltScan(q, pats) ==
  LET url(p) == NormalizePR(q[FirstMatch(q, pats[p])].val)
      P == {p \in DOMAIN pats :
              FirstMatch(q, pats[p]) # 0 /\ StartsWithHttp(url(p))}
  IN IF P = {} THEN None ELSE url(MinOf(P))

DoodExtract(page) ==
  LET q == Quoted(page)
      md5 == \E i \in DOMAIN q : q[i].key = "var pass_md5" /\ q[i].val # None
      vi == MinOf({i \in DOMAIN q : q[i].key = "var video_url" /\ q[i].val # None})
      v == NormalizePR(q[vi].val)
      di == MinOf({i \in DOMAIN q : DoodQuoted(q[i].val)})
      alt == AltScan(q, << Pat({"file", "jwplayer.setup.file"}, {".mp4"}),
                           Pat({"sources["}, {".mp4"}) >>)
  IN IF /\ md5 /\ vi # 0 /\ StartsWithHttp(v)
        /\ HasAny(Lower(v), {".mp4", ".m3u8", "stream", "video"})
     THEN v
     ELSE IF di # 0 /\ StartsWithHttp(q[di].val) THEN q[di].val
     ELSE alt

StreamtapeExtract(page) ==
  LET q == Quoted(page)
      g == MinOf({i \in DOMAIN q : q[i].key = "get_video" /\ HttpSchemeCS(q[i].val)})
      r == MinOf({i \in DOMAIN q : q[i].key = "robotlink" /\ HttpSchemeCS(q[i].val)})
  IN IF g # 0 THEN q[g].val ELSE IF r # 0 THEN q[r].val ELSE None

MixdropExtract(page) ==
  LET q == Quoted(page)
      w == MinOf({i \in DOMAIN q : q[i].key = "MDCore.wurl" /\ HttpSchemeCS(q[i].val)})
  IN IF w # 0 THEN q[w].val
     ELSE AltScan(q, << Pat({"MDCore.wurl"}, {}),
                        Pat({"sources["}, {".mp4"}),
                        Pat({"file", "jwplayer.setup.file"}, {".mp4"}) >>)

\* the iframe target of the vidstream and trembed blocks (first iframe only,
\* only // is normalised, no denylist), None when there is none
ProviderIframe(p, page) ==
  LET i == Find(page, "iframe")
      s == IF i = 0 THEN None
           ELSE IF p = "vidstream" THEN Attr(page.elems[i], "src")
           ELSE FirstAttr(page.elems[i], <<"src", "data-src">>)
  IN IF s # None /\ StartsWithHttp(NormalizePR(s)) THEN NormalizePR(s) ELSE None

\* the <video src> the vidstream block returns
VidstreamVideo(page) ==
  LET i == Find(page, "video")
      s == IF i = 0 THEN None ELSE Attr(page.elems[i], "src")
  IN IF s # None /\ StartsWithHttp(NormalizePR(s)) THEN NormalizePR(s) ELSE None

\* what a provider block finds in the text without recursing
ProviderExtract(p, page) ==
  CASE p = "dood" -> DoodExtract(page)
    [] p = "streamtape" -> StreamtapeExtract(page)
    [] p = "mixdrop" -> MixdropExtract(page)
    [] OTHER -> None

\* ---------------------------------------------------------------- the web
A == <<"https:", "//", "site.example", "/", "watch", "/", "a">>
B == <<"https:", "//", "host.example", "/", "embed", "/", "xyz">>
PRB == Tail(B)
D == <<"https:", "//", "dood.example", "/", "e", "/", "1">>
T == <<"https:", "//", "streamtape.com", "/", "e", "/", "1">>
X == <<"https:", "//", "mixdrop.co", "/", "e", "/", "1">>
V == <<"https:", "//", "vidstream.example", "/", "v", "/", "1">>
CSS == <<"https:", "//", "site.example", "/", "style", ".css">>
ASSET == <<"https:", "//", "site.example", "/", "assets", "/", "player">>
M1 == <<"https:", "//", "cdn.example", "/", "a", ".mp4">>
M2 == <<"https:", "//", "cdn2.example", "/", "b", ".m3u8">>
M3 == <<"https:", "//", "cdn.example", "/", "c", ".MP4">>
MAds == <<"https:", "//", "cdn.example", "/", "uploads", "/", "c", ".m3u8">>
PRM == Tail(M2)
RootM == <<"/", "hls", "/", "d", ".m3u8">>
RelM == <<"a", ".mp4">>
RelHttp == <<"httpdocs", "/", "a", ".mp4">>
FB == <<"https:", "//", "facebook.com", "/", "plugins", "/", "like">>
FBV == <<"https:", "//", "facebook.com", "/", "v", "/", "1">>
P1 == <<"https:", "//", "site.example", "/", "watch", "/", "b">>
P2 == <<"https:", "//", "site.example", "/", "watch", "/", "c">>
Plain == <<"https:", "//", "site.example", "/", "page2">>

Tops == {A, B, D, T, X, V, CSS, ASSET}

\* what a generic page may hold for each strategy (<<>>: nothing); a video
\* element is the first element of its page
VideoOpts ==
  { <<>>,
    << El("video", <<>>), Child("source", << <<"src", M1>> >>, 1) >>,
    << El("video", << <<"src", M2>> >>), Child("source", << <<"src", M1>> >>, 1) >>,
    << El("video", << <<"src", RelM>> >>), Child("source", << <<"src", M3>> >>, 1) >>,
    << El("video", <<>>), Child("source", << <<"src", Plain>> >>, 1),
       Child("source", << <<"data-src", PRM>> >>, 1) >>,
    << El("video", << <<"data-src", RootM>> >>) >>,
    << El("video", << <<"src", RelHttp>> >>) >> }

IframeOpts ==
  { <<>>,
    << El("iframe", << <<"src", PRB>> >>) >>,
    << El("iframe", << <<"src", A>> >>) >>,
    << El("iframe", << <<"src", FB>> >>), El("iframe", << <<"data-src", B>> >>) >>,
    << El("iframe", << <<"src", RelM>> >>) >>,
    << El("iframe", << <<"src", Tail(Tail(Tail(ASSET)))>> >>) >>,
    << El("iframe", << <<"src", FBV>> >>) >>,
    << El("iframe", << <<"src", P1>> >>) >>,
    << El("iframe", << <<"src", P2>> >>), El("iframe", << <<"src", P1>> >>) >> }

ScriptOpts ==
  { <<>>,
    << Script(<< St("file", M2) >>) >>,
    << Script(<< St("file", PRM) >>) >>,
    << Script(<< St("file", MAds) >>) >>,
    << Script(<< St("url", Plain), St("src", PRM) >>) >>,
    << Script(<< St("poster", Plain), St("url", M1), St("file", M2) >>) >>,
    << Script(<< St("file", MAds) >>),
       Script(<< St("url", Plain), St("file", M2) >>) >> }

DataOpts ==
  { <<>>,
    << El("div", << <<"title", Plain>>, <<"data-video", M1>> >>) >>,
    << El("div", << <<"data-file", PRM>> >>) >> }

AnchorOpts ==
  { <<>>,
    << El("a", << <<"href", M2>> >>) >>,
    << El("a", << <<"href", RootM>> >>) >> }

RedirectOpts ==
  { <<>>,
    << Script(<< St("window.location.href", B) >>) >>,
    << Script(<< St("window.location.replace", A) >>) >> }

Count(parts) == Cardinality({i \in DOMAIN parts : parts[i] # <<>>})

\* generic pages holding at most n populated strategies
GenericPages(n) ==
  { Page("ok", v \o i \o s \o d \o a \o r) :
      <<v, i, s, d, a, r>> \in
        { c \in VideoOpts \X IframeOpts \X ScriptOpts \X DataOpts
                 \X AnchorOpts \X RedirectOpts : Count(c) <= n } }

FailedPages == { Page("non200", <<>>), Page("error", <<>>), Page("badbody", <<>>) }

DoodPages ==
  { Page("ok", << Script(<< St("var pass_md5", <<"k">>), St("var video_url", PRM) >>) >>),
    Page("ok", << Script(<< St("var pass_md5", <<"k">>), St("var video_url", Plain) >>),
                  Script(<< St("file", M1) >>) >>),
    Page("ok", << Script(<< St("file", M2) >>) >>),
    Page("ok", <<>>) }

StreamtapePages ==
  { Page("ok", << Script(<< St("get_video", Plain) >>) >>),
    Page("ok", << Script(<< St("robotlink", M1) >>) >>),
    Page("ok", << El("a", << <<"href", M2>> >>) >>) }

MixdropPages ==
  { Page("ok", << Script(<< St("MDCore.wurl", M1) >>) >>),
    Page("ok", << Script(<< St("sources[", M3) >>) >>),
    Page("ok", << Script(<< St("MDCore.wurl", PRM) >>) >>) }

VidstreamPages ==
  { Page("ok", << El("iframe", << <<"src", PRB>> >>) >>),
    Page("ok", << El("video", << <<"src", PRM>> >>) >>),
    Page("ok", << El("iframe", << <<"data-src", B>> >>),
                  El("video", << <<"src", M1>> >>) >>) }

\* what the page of a social network may answer
SocialPages ==
  { Page("ok", << El("video", << <<"src", M1>> >>) >>),
    Page("ok", <<>>),
    Page("non200", <<>>) }

\* the pages behind the page A: a further link, a media link, or nothing
ChainPages1 ==
  { Page("ok", << El("iframe", << <<"src", P2>> >>) >>),
    Page("ok", << El("video", << <<"src", M1>> >>) >>),
    Page("ok", << Script(<< St("file", M2) >>) >>),
    Page("non200", <<>>) }

ChainPages2 ==
  { Page("ok", << El("a", << <<"href", M2>> >>) >>),
    Page("ok", << El("iframe", << <<"src", A>> >>) >>),
    Page("ok", <<>>) }

PagesA == GenericPages(MaxFeatures) \cup FailedPages
PagesB == GenericPages(1) \cup FailedPages

\* the responses a URL may give
Bodies(u) ==
  IF u = A THEN PagesA
  ELSE IF u = B THEN PagesB
  ELSE IF u = D THEN DoodPages \cup FailedPages
  ELSE IF u = T THEN StreamtapePages \cup FailedPages
  ELSE IF u = X THEN MixdropPages \cup FailedPages
  ELSE IF u = V THEN VidstreamPages \cup FailedPages
  ELSE IF u = FBV THEN SocialPages
  ELSE IF u = P1 THEN ChainPages1
  ELSE IF u = P2 THEN ChainPages2
  ELSE { Page("non200", <<>>), Page("error", <<>>) }

\* ------------------------------------------------------------ activations
StdStage == Len(Providers) + 1

\* an activation: its arguments, the block it is in (stage), its position,
\* the loop index of the iframe/redirect loops, the value it returns and the
\* strategy that produced it, the value its last recursive call returned,
\* the generic strategies it has run, the number of GETs it has issued, and
\* the recursive calls it has made with what they returned
Frame(u, d) ==
  [url |-> u, depth |-> d, pc |-> "entry", stage |-> 0, idx |-> 0,
   val |-> None, by |-> "", ret |-> None, tried |-> <<>>, nget |-> 0,
   calls |-> <<>>]

Cur == stack[Len(stack)]
SetCur(f) == [stack EXCEPT ![Len(stack)] = f]
Running(pc) == stack # <<>> /\ Cur.pc = pc

Yield(f, v, by) == [f EXCEPT !.pc = "return", !.val = v, !.by = by]
Ran(f, name) == [f EXCEPT !.tried = Append(@, name)]

\* the handler re-raises
OuterExcept_reraise(f) == [f EXCEPT !.pc = "return", !.val = Raised, !.by = "except"]

\* except Exception of the whole function (lines 501-503)
OuterExcept(f) == Yield(f, None, "except")

\* leave block number f.stage for the next block the URL enters
NextBlock(f) ==
  LET k == NextStage(f.url, f.stage)
  IN [f EXCEPT !.stage = k, !.pc = IF k = StdStage THEN "std" ELSE "fetch"]

\* the recursive call passes max_depth on unchanged
Recurse_samedepth(f, target, waitpc) ==
  Append([stack EXCEPT ![Len(stack)] = [f EXCEPT !.pc = waitpc]],
         [url |-> target, depth |-> f.depth, pc |-> "entry", stage |-> 0,
          idx |-> 0, val |-> None, by |-> "", ret |-> None, tried |-> <<>>,
          nget |-> 0, calls |-> <<>>])

\* resolve_embed_to_direct(client, target, max_depth - 1) called by f
Recurse(f, target, waitpc) ==
  Append(SetCur([f EXCEPT !.pc = waitpc]), Frame(target, f.depth - 1))

\* what the blocks and strategies of the function find in the response pg
\* of the URL u
Found(u, pg) ==
  [extract |-> [p \in {"dood", "streamtape", "mixdrop"} |-> ProviderExtract(p, pg)],
   piframe |-> [p \in {"vidstream", "trembed"} |-> ProviderIframe(p, pg)],
   pvideo |-> VidstreamVideo(pg),
   video |-> VideoScan(pg, u),
   iframes |-> [j \in DOMAIN FindAll(pg, "iframe") |->
                  IframeTarget(FindAll(pg, "iframe")[j], u)],
   scripts |-> ScriptScan(pg),
   data |-> DataScan(pg),
   anchors |-> AnchorScan(pg, u),
   redirects |-> [j \in DOMAIN FindAll(pg, "script") |->
                    RedirectTarget(FindAll(pg, "script")[j])]]

\* Found for every response of the pages of the web, evaluated once
PageUrls == {A, B, D, T, X, V, FBV, P1, P2}
FoundIn == [u \in PageUrls |-> [pg \in Bodies(u) |-> Found(u, pg)]]

\* Found for the recorded response of u
Doc(u) == IF u \in PageUrls THEN FoundIn[u][pages[u]] ELSE Found(u, pages[u])
DocOf(u, r) == IF u \in PageUrls THEN FoundIn[u][r] ELSE Found(u, r)

\* the responses a GET of u may give now: the recorded one after the first
Responses(u) == IF u \in DOMAIN pages THEN {pages[u]} ELSE Bodies(u)

\* the activation after one more await client.get(embed_url)
Got(f) == [f EXCEPT !.nget = @ + 1]

\* client.get(url) answers r: the response is recorded, the GET is logged
Get(u, r) ==
  /\ pages' = [w \in DOMAIN pages \cup {u} |-> IF w = u THEN r ELSE pages[w]]
  /\ gets' = Append(gets, [run |-> Len(results) + 1, url |-> u,
                           depth |-> Cur.depth, level |-> Len(stack)])

\* a task that makes no call
IdleTask == [top |-> [url |-> <<>>, depth |-> 0], stack |-> <<>>, results |-> <<>>]

\* no resolve pass is running
PassIdle ==
  /\ caller = "episode"
  /\ servers = <<>>
  /\ resolved_servers = <<>>
  /\ passed = <<>>
  /\ data_servers = None

\* no second task
ConcIdle == other = IdleTask

\* no series detail request
FanIdle ==
  /\ include_servers = FALSE
  /\ episodes = <<>>
  /\ semaphore_episodes = 0
  /\ phase = "idle"
  /\ parsed_episodes = <<>>

\* language=None of a search request
NoLanguage == ""

\* no movie search request
SearchIdle ==
  /\ request = [term_ok |-> FALSE, language |-> NoLanguage, max_pages |-> 0]
  /\ current_url = 0
  /\ page_count = 0
  /\ movies_list = 0
  /\ raised = <<>>
  /\ response = 0
  /\ search_gets = <<>>

\* no listing call
ListIdle ==
  /\ listing = [kind |-> "", page |-> 0, year_ok |-> FALSE, query_ok |-> FALSE]
  /\ list_gets = 0
  /\ list_page = <<>>
  /\ list_status = 0

\* no episode call
EpIdle ==
  /\ ep_request = [args_ok |-> FALSE, language |-> FALSE]
  /\ ep_tried = <<>>
  /\ last_error = <<>>
  /\ episode_data = 0
  /\ ep_status = 0

\* no anime series call
AnimeIdle ==
  /\ an_stack = <<>>
  /\ an_log = <<>>
  /\ an_status = 0

\* no call of get_server_type
TypeIdle ==
  /\ type_url = <<>>
  /\ server_type = ""

\* no toonstream movie call
ToonIdle ==
  /\ candidate_links = <<>>
  /\ tc_idx = 0
  /\ processed_candidates = {}
  /\ streaming_links = <<>>
  /\ toon_calls = <<>>
  /\ toon_servers = <<>>
  /\ toon_phase = "idle"

ExtraIdle == ListIdle /\ EpIdle /\ AnimeIdle /\ TypeIdle /\ ToonIdle

CallersIdle == PassIdle /\ ConcIdle /\ FanIdle /\ SearchIdle /\ ExtraIdle

Init ==
  /\ top \in [url : Tops, depth : (0 - BelowZero)..MaxDepth]
  /\ stack = <<>>
  /\ results = <<>>
  /\ pages = [u \in {} |-> None]
  /\ gets = <<>>
  /\ CallersIdle

\* a caller awaits resolve_embed_to_direct(client, url, max_depth)
Call ==
  /\ stack = <<>>
  /\ Len(results) < Runs
  /\ stack' = <<Frame(top.url, top.depth)>>
  /\ UNCHANGED <<top, results, pages, gets>>
  /\ UNCHANGED callers

\* lines 213-231: depth guard, then the non-video filters, no I/O
Guard ==
  /\ Running("entry")
  /\ stack' = SetCur(
       IF DepthExhausted(Cur.depth) THEN Yield(Cur, None, "guard")
       ELSE IF NonVideo(Cur.url) THEN Yield(Cur, None, "filter")
       ELSE NextBlock(Cur))
  /\ UNCHANGED <<top, results, pages, gets>>
  /\ UNCHANGED callers

\* a provider block whose GET fails or answers non-200 ends the level
ProviderFetch_giveup ==
  /\ stack # <<>> /\ stack[Len(stack)].pc = "fetch"
  /\ \E r \in Responses(stack[Len(stack)].url) :
       /\ Get(stack[Len(stack)].url, r)
       /\ stack' = [stack EXCEPT ![Len(stack)] =
            IF r.status # "ok"
            THEN [@ EXCEPT !.nget = @ + 1, !.pc = "return", !.by = "status"]
            ELSE [@ EXCEPT !.nget = @ + 1, !.stage = StdStage, !.pc = "std"]]
  /\ UNCHANGED <<top, results>>
  /\ UNCHANGED callers

\* lines 237-362: one provider block, from its GET to its end or to the
\* recursive call it makes
ProviderFetch ==
  /\ Running("fetch")
  /\ \E r \in Responses(Cur.url) :
       /\ Get(Cur.url, r)
       /\ LET p == Providers[Cur.stage]
              doc == DocOf(Cur.url, r)
              c == Got(Cur)
          IN stack' =
               IF r.status # "ok" THEN SetCur(NextBlock(c))
               ELSE IF p \in {"vidstream", "trembed"} THEN
                 IF doc.piframe[p] # None /\ Len(stack) < MaxStack
                   THEN Recurse(c, doc.piframe[p], "pwait")
                 ELSE IF p = "vidstream" /\ doc.pvideo # None
                   THEN SetCur(Yield(c, doc.pvideo, p))
                 ELSE SetCur(NextBlock(c))
               ELSE IF doc.extract[p] # None
                 THEN SetCur(Yield(c, doc.extract[p], p))
               ELSE SetCur(NextBlock(c))
  /\ UNCHANGED <<top, results>>
  /\ UNCHANGED callers

\* lines 329-339 and 359-362: after the recursive call of a provider block
ProviderResume ==
  /\ Running("pwait")
  /\ LET p == Providers[Cur.stage]
         v == Doc(Cur.url).pvideo
     IN stack' = SetCur(
          IF Cur.ret = Raised THEN NextBlock(Cur)
          ELSE IF Cur.ret # None THEN Yield(Cur, Cur.ret, p)
          ELSE IF p = "vidstream" /\ v # None THEN Yield(Cur, v, p)
          ELSE NextBlock(Cur))
  /\ UNCHANGED <<top, results, pages, gets>>
  /\ UNCHANGED callers

\* lines 365-370: the standard GET and the parse
StdFetch ==
  /\ Running("std")
  /\ \E r \in Responses(Cur.url) :
       /\ Get(Cur.url, r)
       /\ stack' = SetCur(
            IF r.status \in {"error", "badbody"} THEN OuterExcept(Got(Cur))
            ELSE IF r.status # "ok" THEN Yield(Got(Cur), None, "status")
            ELSE [Got(Cur) EXCEPT !.pc = "video"])
  /\ UNCHANGED <<top, results>>
  /\ UNCHANGED callers

\* a found video source does not end the level
Video_goeson ==
  /\ stack # <<>> /\ stack[Len(stack)].pc = "video"
  /\ stack' = [stack EXCEPT ![Len(stack)] =
                 [@ EXCEPT !.tried = Append(@, "video"),
                           !.pc = "iframes", !.idx = 1]]
  /\ UNCHANGED <<top, results, pages, gets>>
  /\ UNCHANGED callers

\* lines 372-396
Video ==
  /\ Running("video")
  /\ LET x == Doc(Cur.url).video
         f == Ran(Cur, "video")
     IN stack' = SetCur(IF x # None THEN Yield(f, x, "video")
                        ELSE [f EXCEPT !.pc = "iframes", !.idx = 1])
  /\ UNCHANGED <<top, results, pages, gets>>
  /\ UNCHANGED callers

\* lines 398-414: the iframe loop up to its next recursive call
Iframes ==
  /\ Running("iframes")
  /\ LET ifr == Doc(Cur.url).iframes
         k == MinOf({j \in DOMAIN ifr : j >= Cur.idx /\ ifr[j] # None})
         f == IF Cur.idx = 1 THEN Ran(Cur, "iframes") ELSE Cur
     IN IF k = 0
        THEN stack' = SetCur([f EXCEPT !.pc = "scripts"])
        ELSE /\ Len(stack) < MaxStack
             /\ stack' = Recurse([f EXCEPT !.idx = k], ifr[k], "iwait")
  /\ UNCHANGED <<top, results, pages, gets>>
  /\ UNCHANGED callers

\* the result of the recursive call is returned whatever it is
IframeResume_stop ==
  /\ stack # <<>> /\ stack[Len(stack)].pc = "iwait"
  /\ stack' = [stack EXCEPT ![Len(stack)] =
                 [@ EXCEPT !.pc = "return", !.val = stack[Len(stack)].ret,
                           !.by = "iframes"]]
  /\ UNCHANGED <<top, results, pages, gets>>
  /\ UNCHANGED callers

\* lines 415-416
IframeResume ==
  /\ Running("iwait")
  /\ stack' = SetCur(
       IF Cur.ret = Raised THEN OuterExcept(Cur)
       ELSE IF Cur.ret # None THEN Yield(Cur, Cur.ret, "iframes")
       ELSE [Cur EXCEPT !.pc = "iframes", !.idx = @ + 1])
  /\ UNCHANGED <<top, results, pages, gets>>
  /\ UNCHANGED callers

\* lines 418-462
Scripts ==
  /\ Running("scripts")
  /\ LET x == Doc(Cur.url).scripts
         f == Ran(Cur, "scripts")
     IN stack' = SetCur(IF x # None THEN Yield(f, x, "scripts")
                        ELSE [f EXCEPT !.pc = "data"])
  /\ UNCHANGED <<top, results, pages, gets>>
  /\ UNCHANGED callers

\* lines 464-472
Data ==
  /\ Running("data")
  /\ LET x == Doc(Cur.url).data
         f == Ran(Cur, "data")
     IN stack' = SetCur(IF x # None THEN Yield(f, x, "data")
                        ELSE [f EXCEPT !.pc = "anchors"])
  /\ UNCHANGED <<top, results, pages, gets>>
  /\ UNCHANGED callers

\* lines 474-485
Anchors ==
  /\ Running("anchors")
  /\ LET x == Doc(Cur.url).anchors
         f == Ran(Cur, "anchors")
     IN stack' = SetCur(IF x # None THEN Yield(f, x, "anchors")
                        ELSE [f EXCEPT !.pc = "redirect", !.idx = 1])
  /\ UNCHANGED <<top, results, pages, gets>>
  /\ UNCHANGED callers

\* lines 487-500: the redirect loop up to its next recursive call, or the
\* final return None
Redirect ==
  /\ Running("redirect")
  /\ LET red == Doc(Cur.url).redirects
         k == MinOf({j \in DOMAIN red : j >= Cur.idx /\ red[j] # None})
         f == IF Cur.idx = 1 THEN Ran(Cur, "redirect") ELSE Cur
     IN IF k = 0
        THEN stack' = SetCur(Yield(f, None, "end"))
        ELSE /\ Len(stack) < MaxStack
             /\ stack' = Recurse([f EXCEPT !.idx = k], red[k], "rwait")
  /\ UNCHANGED <<top, results, pages, gets>>
  /\ UNCHANGED callers

\* lines 497-498
RedirectResume ==
  /\ Running("rwait")
  /\ stack' = SetCur(
       IF Cur.ret = Raised THEN OuterExcept(Cur)
       ELSE IF Cur.ret # None THEN Yield(Cur, Cur.ret, "redirect")
       ELSE [Cur EXCEPT !.pc = "redirect", !.idx = @ + 1])
  /\ UNCHANGED <<top, results, pages, gets>>
  /\ UNCHANGED callers

\* a return statement: the activation ends and its caller gets the value
Return ==
  /\ Running("return")
  /\ IF Len(stack) = 1
     THEN /\ results' = Append(results, Cur.val)
          /\ stack' = <<>>
     ELSE /\ results' = results
          /\ stack' = [SubSeq(stack, 1, Len(stack) - 1)
                         EXCEPT ![Len(stack) - 1].ret = Cur.val,
                                ![Len(stack) - 1].calls =
                                   Append(@, [url |-> Cur.url, ret |-> Cur.val,
                                              via |-> stack[Len(stack) - 1].pc])]
  /\ UNCHANGED <<top, pages, gets>>
  /\ UNCHANGED callers

Next ==
  \/ Call
  \/ Guard
  \/ ProviderFetch
  \/ ProviderResume
  \/ StdFetch
  \/ Video
  \/ Iframes
  \/ IframeResume
  \/ Scripts
  \/ Data
  \/ Anchors
  \/ Redirect
  \/ RedirectResume
  \/ Return

Spec == Init /\ [][Next]_vars

\* the event loop runs a ready coroutine and every GET ends (response,
\* error or timeout)
FairSpec == Spec /\ WF_vars(Next)

Done == stack = <<>> /\ Len(results) = Runs

\* ------------------------------------------------- two concurrent calls
\* the URLs of the two calls
ConcTops == {V, T}

\* the max_depth the episode extractors pass (max_depth=2)
CallDepth == 2

\* two tasks, each about to await resolve_embed_to_direct twice: once while
\* the other task runs, once more afterwards
ConcInit ==
  /\ top = [url |-> V, depth |-> CallDepth]
  /\ stack = <<>>
  /\ results = <<>>
  /\ pages = [u \in {} |-> None]
  /\ gets = <<>>
  /\ other \in [top : [url : ConcTops, depth : {CallDepth}],
                 stack : {<<>>}, results : {<<>>}]
  /\ PassIdle
  /\ FanIdle
  /\ SearchIdle
  /\ ExtraIdle

\* the running task is about to await client.get
AtFetch == stack # <<>> /\ Cur.pc \in {"fetch", "std"}

\* the event loop runs the other task: between two calls of the running
\* task, or while its first call awaits a response
Switch ==
  /\ stack = <<>> \/ (AtFetch /\ results = <<>>)
  /\ other.stack = <<>> => Len(other.results) < Runs
  /\ other' = [top |-> top, stack |-> stack, results |-> results]
  /\ top' = other.top
  /\ stack' = other.stack
  /\ results' = other.results
  /\ UNCHANGED <<pages, gets>>
  /\ UNCHANGED <<passVars, fanVars, searchVars, extra>>

ConcNext ==
  \/ Switch
  \/ Next

ConcSpec == ConcInit /\ [][ConcNext]_vars

\* ------------------------------------------- the callers' resolve pass
\* the media extensions and names are looked for first
get_server_type_directfirst(url) ==
  LET l == Lower(url)
  IN IF HasAny(l, {".mp4", ".m3u8", "direct", "cdn"}) THEN "direct"
     ELSE IF HasAny(l, {"embed", "iframe"}) THEN "embed"
     ELSE IF HasWord(l, "drive.google") THEN "gdrive"
     ELSE IF HasAny(l, {"dood", "streamtape", "mixdrop"}) THEN "filehost"
     ELSE "iframe"

\* get_server_type(url)
get_server_type(url) ==
  LET l == Lower(url)
  IN IF HasAny(l, {"embed", "iframe"}) THEN "embed"
     ELSE IF HasAny(l, {".mp4", ".m3u8", "direct", "cdn"}) THEN "direct"
     ELSE IF HasWord(l, "drive.google") THEN "gdrive"
     ELSE IF HasAny(l, {"dood", "streamtape", "mixdrop"}) THEN "filehost"
     ELSE "iframe"

\* a streaming server entry
StreamingServer(name, url, quality, type) ==
  [name |-> name, url |-> url, quality |-> quality, type |-> type]

G == <<"https:", "//", "drive.google.com", "/", "file", "/", "1">>

\* the servers an extractor builds: the type is get_server_type(url), or
\* "direct" for the src of a <video> or <source> element
ServerUrls == {A, B, D, G, M1}

Labels == { <<"Server 1", None>>, <<"Direct 2", <<"HD">> >> }

Servers ==
  { StreamingServer(lb[1], u, lb[2], t) :
      <<lb, u, t>> \in { c \in Labels \X ServerUrls \X
                                 {"direct", "embed", "iframe", "gdrive", "filehost"} :
                           c[3] \in {get_server_type(c[2]), "direct"} } }

\* the extractors with a resolve pass and the max_depth they pass
Callers == {"episode", "anime", "toonstream"}

PassDepth(c) == IF c = "toonstream" THEN 3 ELSE 2

\* the test that sends a server to resolve
EmbedLike(c, server) ==
  LET l == Lower(server.url)
  IN \/ server.type \in {"embed", "iframe"}
     \/ HasPath(l, "embed")
     \/ HasWord(l, "embed")
     \/ c = "toonstream" /\ HasWord(l, "trembed")

\* what resolve_embed_to_direct may give for a URL: nothing or a URL, the
\* URL itself included
Resolved(url) == {None, url, M2}

\* every URL that resolve gives replaces the server
ResolvedEntry_always(server, resolved_url) ==
  IF resolved_url # None
  THEN StreamingServer(server.name, resolved_url, server.quality, "direct")
  ELSE server

\* the entry of resolved_servers for a server that was sent to resolve
ResolvedEntry(server, resolved_url) ==
  IF resolved_url # None /\ resolved_url # server.url
  THEN StreamingServer(server.name, resolved_url, server.quality,
                       IF resolved_url # None THEN "direct" ELSE server.type)
  ELSE server

\* no resolver call is running
ResolverIdle ==
  /\ top = [url |-> A, depth |-> 0]
  /\ stack = <<>>
  /\ results = <<>>
  /\ pages = [u \in {} |-> None]
  /\ gets = <<>>

\* an extractor has parsed its page and starts the pass
PassInit ==
  /\ ResolverIdle
  /\ ConcIdle
  /\ FanIdle
  /\ SearchIdle
  /\ ExtraIdle
  /\ caller \in Callers
  /\ servers \in UNION {[1..n -> Servers] : n \in 0..MaxServers}
  /\ resolved_servers = <<>>
  /\ passed = <<>>
  /\ data_servers = None

\* one iteration of `for server in servers` for a server sent to resolve
ResolveServer ==
  /\ data_servers = None
  /\ Len(resolved_servers) < Len(servers)
  /\ LET server == servers[Len(resolved_servers) + 1]
     IN /\ EmbedLike(caller, server)
        /\ \E resolved_url \in Resolved(server.url) :
             /\ passed' = Append(passed, [url |-> server.url,
                                          depth |-> PassDepth(caller),
                                          ret |-> resolved_url])
             /\ resolved_servers' =
                  Append(resolved_servers, ResolvedEntry(server, resolved_url))
  /\ UNCHANGED <<caller, servers, data_servers>>
  /\ UNCHANGED <<resolver, concVars, fanVars, searchVars, extra>>

\* one iteration for a server that is kept as it is
KeepServer ==
  /\ data_servers = None
  /\ Len(resolved_servers) < Len(servers)
  /\ LET server == servers[Len(resolved_servers) + 1]
     IN /\ ~EmbedLike(caller, server)
        /\ resolved_servers' = Append(resolved_servers, server)
  /\ UNCHANGED <<caller, servers, passed, data_servers>>
  /\ UNCHANGED <<resolver, concVars, fanVars, searchVars, extra>>

\* the record gets the resolved servers
StoreServers ==
  /\ data_servers = None
  /\ Len(resolved_servers) = Len(servers)
  /\ data_servers' = <<resolved_servers>>
  /\ UNCHANGED <<caller, servers, resolved_servers, passed>>
  /\ UNCHANGED <<resolver, concVars, fanVars, searchVars, extra>>

PassNext ==
  \/ ResolveServer
  \/ KeepServer
  \/ StoreServers

PassSpec == PassInit /\ [][PassNext]_vars

\* ------------------------------------- the fan-out over the episodes
\* asyncio.Semaphore(10)
PoolSize == 10

\* an episode of the parsed series, what became of its task, and whether
\* fetch_episode_servers caught an exception for it
Ep(title, state, srv) ==
  [title |-> title, state |-> state, servers |-> srv, failed |-> FALSE]

\* the episode tasks holding the semaphore
InProgress == {e \in DOMAIN episodes : episodes[e].state = "running"}

\* the episode tasks waiting for the semaphore, served first in first out
Waiting == {e \in DOMAIN episodes : episodes[e].state = "waiting"}

\* the series page has been fetched and parsed
FanInit ==
  /\ ResolverIdle
  /\ PassIdle
  /\ ConcIdle
  /\ SearchIdle
  /\ ExtraIdle
  /\ include_servers \in BOOLEAN
  /\ parsed_episodes \in
       {[e \in 1..n |-> Ep(e, "parsed", None)] : n \in 0..MaxEpisodes}
  /\ episodes = parsed_episodes
  /\ semaphore_episodes = PoolSize
  /\ phase = "parsed"

\* asyncio.gather creates one task per episode
Gather ==
  /\ phase = "parsed"
  /\ include_servers /\ episodes # <<>>
  /\ phase' = "gather"
  /\ episodes' = [e \in DOMAIN episodes |->
                    [episodes[e] EXCEPT !.state = "waiting"]]
  /\ UNCHANGED <<include_servers, semaphore_episodes, parsed_episodes>>
  /\ UNCHANGED <<resolver, passVars, concVars, searchVars, extra>>

\* without include_servers or without episodes the detail is returned
ReturnDetail ==
  /\ phase = "parsed"
  /\ ~(include_servers /\ episodes # <<>>)
  /\ phase' = "returned"
  /\ UNCHANGED <<include_servers, episodes, semaphore_episodes, parsed_episodes>>
  /\ UNCHANGED <<resolver, passVars, concVars, searchVars, extra>>

\* the tasks are started without the semaphore
Acquire_nolimit ==
  /\ phase = "gather"
  /\ Waiting # {}
  /\ episodes' = [episodes EXCEPT ![MinOf(Waiting)].state = "running"]
  /\ semaphore_episodes' = semaphore_episodes - 1
  /\ UNCHANGED <<include_servers, phase, parsed_episodes>>
  /\ UNCHANGED <<resolver, passVars, concVars, searchVars, extra>>

\* async with semaphore_episodes: the first waiting task enters
Acquire ==
  /\ phase = "gather"
  /\ Waiting # {}
  /\ semaphore_episodes > 0
  /\ episodes' = [episodes EXCEPT ![MinOf(Waiting)].state = "running"]
  /\ semaphore_episodes' = semaphore_episodes - 1
  /\ UNCHANGED <<include_servers, phase, parsed_episodes>>
  /\ UNCHANGED <<resolver, passVars, concVars, searchVars, extra>>

\* the exception of a failed episode leaves its task, and gather raises it
FetchEpisode_unguarded ==
  /\ phase = "gather"
  /\ \E e \in InProgress, ok \in BOOLEAN :
        /\ episodes' = [episodes EXCEPT ![e] =
             [@ EXCEPT !.state = "done", !.failed = ~ok,
                       !.servers = IF ok THEN <<"servers">> ELSE @]]
        /\ phase' = IF ok THEN phase ELSE "failed"
  /\ semaphore_episodes' = semaphore_episodes + 1
  /\ UNCHANGED <<include_servers, parsed_episodes>>
  /\ UNCHANGED <<resolver, passVars, concVars, searchVars, extra>>

\* fetch_episode_servers ends, with the servers of the episode or, after a
\* failure, with the episode as it was, and the semaphore is released
FetchEpisode ==
  /\ phase = "gather"
  /\ \E e \in InProgress, ok \in BOOLEAN :
        episodes' = [episodes EXCEPT ![e] =
          IF ok
          THEN [@ EXCEPT !.state = "done", !.servers = <<"servers">>]
          ELSE [parsed_episodes[e] EXCEPT !.state = "done", !.failed = TRUE]]
  /\ semaphore_episodes' = semaphore_episodes + 1
  /\ UNCHANGED <<include_servers, phase, parsed_episodes>>
  /\ UNCHANGED <<resolver, passVars, concVars, searchVars, extra>>

\* gather returns the updated episodes
Collect ==
  /\ phase = "gather"
  /\ \A e \in DOMAIN episodes : episodes[e].state = "done"
  /\ phase' = "returned"
  /\ UNCHANGED <<include_servers, episodes, semaphore_episodes, parsed_episodes>>
  /\ UNCHANGED <<resolver, passVars, concVars, searchVars, extra>>

FanNext ==
  \/ Gather
  \/ ReturnDetail
  \/ Acquire
  \/ FetchEpisode
  \/ Collect

FanSpec == FanInit /\ [][FanNext]_vars

\* the event loop runs every ready task and every episode fetch ends, with
\* a response, an error or a timeout
FanFairSpec == FanSpec /\ WF_vars(FanNext)

\* ---------------------------------------------------- the movie search
\* an exception: its class and, for the classes that carry one, its status
Exc(class, status) == [class |-> class, status |-> status]

\* isinstance(exc, cls) for the handlers of this module: HTTPStatusError
\* and RequestError of httpx, HTTPException of fastapi, and Exception
IsInstance(exc, cls) == cls = "Exception" \/ exc.class = cls

\* scrape_page with the handlers of scrape_movie_data in place of its own
ScrapePageExcept_all500(exc) ==
  IF IsInstance(exc, "HTTPStatusError") THEN Exc("HTTPException", 502)
  ELSE IF IsInstance(exc, "RequestError") THEN Exc("HTTPException", 503)
  ELSE Exc("HTTPException", 500)

\* the except clauses of scrape_page (lines 723-736): what leaves the call
ScrapePageExcept(exc) ==
  IF IsInstance(exc, "HTTPStatusError")
  THEN IF exc.status = 404 THEN Exc("HTTPException", 404)
       ELSE Exc("HTTPException", 502)
  ELSE IF IsInstance(exc, "RequestError") THEN Exc("HTTPException", 503)
  ELSE IF IsInstance(exc, "HTTPException") THEN exc
  ELSE Exc("HTTPException", 500)

\* the except clauses of scrape_movie_data (lines 769-777)
MovieDataExcept(exc) ==
  IF IsInstance(exc, "HTTPStatusError") THEN Exc("HTTPException", 502)
  ELSE IF IsInstance(exc, "RequestError") THEN Exc("HTTPException", 503)
  ELSE IF IsInstance(exc, "Exception") THEN Exc("HTTPException", 500)
  ELSE exc

\* what client.get and the parse of scrape_page end with
PageOutcomes ==
  {"ok", "empty", "status404", "status500", "network", "parse"}

\* the exception an outcome raises inside the try of scrape_page
PageRaises(o) ==
  CASE o = "status404" -> Exc("HTTPStatusError", 404)
    [] o = "status500" -> Exc("HTTPStatusError", 500)
    [] o = "network" -> Exc("RequestError", 0)
    [] o = "parse" -> Exc("Exception", 0)
    [] OTHER -> Exc("", 0)

\* the outcomes that raise
Raises(o) == o \notin {"ok", "empty"}

SUPPORTED_LANGUAGES == {"hindi", "english", "tamil", "telugu", "malayalam"}

\* a client sends GET /search-movie
SearchInit ==
  /\ ResolverIdle
  /\ PassIdle
  /\ ConcIdle
  /\ FanIdle
  /\ ExtraIdle
  /\ request \in [term_ok : BOOLEAN,
                   language : {NoLanguage, "hindi", "klingon"},
                   max_pages : 1..MaxPages]
  /\ current_url = 0
  /\ page_count = 0
  /\ movies_list = 0
  /\ raised = <<>>
  /\ response = 0
  /\ search_gets = <<>>

\* the search pages of the source: 1 is the page of the search URL, the
\* others are the pages a 'next' link can name
SearchUrls == 1..(MaxPages + 1)

\* a page limit one too large
WithinLimit_plus1 == page_count < request.max_pages + 1

\* the page limit in the condition of the while loop (line 751)
WithinLimit == page_count < request.max_pages

\* search_movies (app.py 97-107): the checks, then scrape_movie_data up to
\* its loop
SearchMovies ==
  /\ response = 0 /\ current_url = 0 /\ page_count = 0
  /\ IF ~request.term_ok
        \/ (request.language # NoLanguage
            /\ request.language \notin SUPPORTED_LANGUAGES)
     THEN /\ raised' = <<Exc("HTTPException", 400)>>
          /\ response' = 400
          /\ current_url' = 0
     ELSE /\ raised' = raised
          /\ response' = 0
          /\ current_url' = 1
  /\ UNCHANGED <<request, page_count, movies_list, search_gets>>
  /\ UNCHANGED <<resolver, passVars, concVars, fanVars, extra>>

\* one iteration of the while loop of scrape_movie_data: scrape_page, the
\* language filter, and the exception handling when scrape_page raises
ScrapePage ==
  /\ response = 0
  /\ current_url # 0 /\ WithinLimit
  /\ \E o \in PageOutcomes, found \in 0..MaxItems, next \in {0} \cup SearchUrls :
        \E kept \in (IF request.language = NoLanguage THEN {found}
                     ELSE 0..found) :
          IF Raises(o)
          THEN /\ raised' = <<PageRaises(o), ScrapePageExcept(PageRaises(o)),
                               MovieDataExcept(ScrapePageExcept(PageRaises(o)))>>
               /\ response' = raised'[3].status
               /\ search_gets' =
                    Append(search_gets, [url |-> current_url, next |-> 0])
               /\ UNCHANGED <<current_url, page_count, movies_list>>
          ELSE /\ raised' = raised
               /\ response' = 0
               /\ movies_list' = movies_list + (IF o = "empty" THEN 0 ELSE kept)
               /\ current_url' = IF o = "ok" THEN next ELSE 0
               /\ search_gets' =
                    Append(search_gets,
                           [url |-> current_url, next |-> current_url'])
               /\ page_count' = page_count + 1
  /\ UNCHANGED request
  /\ UNCHANGED <<resolver, passVars, concVars, fanVars, extra>>

\* lines 762-767: after the loop
SearchReturn ==
  /\ response = 0
  /\ page_count > 0
  /\ current_url = 0 \/ ~WithinLimit
  /\ IF movies_list = 0
     THEN /\ raised' = <<Exc("HTTPException", 404),
                          MovieDataExcept(Exc("HTTPException", 404))>>
          /\ response' = raised'[2].status
     ELSE /\ raised' = raised
          /\ response' = 200
  /\ UNCHANGED <<request, current_url, page_count, movies_list, search_gets>>
  /\ UNCHANGED <<resolver, passVars, concVars, fanVars, extra>>

SearchNext ==
  \/ SearchMovies
  \/ ScrapePage
  \/ SearchReturn

SearchSpec == SearchInit /\ [][SearchNext]_vars

\* the event loop runs the request to its end
SearchFairSpec == SearchSpec /\ WF_vars(SearchNext)

\* ------------------------------------------- the single-page listings
\* scrape_movies_by_year_page, scrape_movies_by_genre_page,
\* scrape_movies_by_director_page, scrape_series_page, scrape_series_search
ListingKinds == {"year", "genre", "director", "series", "series_search"}

\* the listings that take a page number
Paged(kind) == kind # "series_search"

\* the other tuples of variables, for the actions of the listings
notList ==
  <<resolver, passVars, concVars, fanVars, searchVars, epVars, animeVars,
    typeVars, toonVars>>

ListInit ==
  /\ ResolverIdle
  /\ PassIdle
  /\ ConcIdle
  /\ FanIdle
  /\ SearchIdle
  /\ ToonIdle
  /\ TypeIdle
  /\ AnimeIdle
  /\ EpIdle
  /\ listing \in {l \in [kind : ListingKinds, page : 0..MaxPages,
                          year_ok : BOOLEAN, query_ok : BOOLEAN] :
                    /\ l.kind # "year" => l.year_ok
                    /\ l.kind # "series_search" => l.query_ok
                    /\ ~Paged(l.kind) => l.page = 1}
  /\ list_gets = 0
  /\ list_page = <<>>
  /\ list_status = 0

\* the argument checks that precede the fetch (lines 781-784, 797, 810,
\* 823, 836)
ListingRejects(l) ==
  \/ l.kind = "year" /\ ~l.year_ok
  \/ Paged(l.kind) /\ l.page < 1
  \/ l.kind = "series_search" /\ ~l.query_ok

\* one listing call: the checks, scrape_page, and the test of the list
ListingCall ==
  /\ list_status = 0 /\ list_gets = 0
  /\ IF ListingRejects(listing)
     THEN /\ list_status' = 400
          /\ UNCHANGED <<list_gets, list_page>>
     ELSE /\ list_gets' = list_gets + 1
          /\ \E o \in PageOutcomes, found \in 0..MaxItems, next \in BOOLEAN :
                /\ list_page' = <<[o |-> o,
                                   found |-> IF o = "ok" THEN found ELSE 0,
                                   next |-> o = "ok" /\ next]>>
                /\ list_status' =
                     IF Raises(o) THEN ScrapePageExcept(PageRaises(o)).status
                     ELSE IF list_page'[1].found = 0 THEN 404
                     ELSE 200
  /\ UNCHANGED listing
  /\ UNCHANGED notList

ListNext == ListingCall

ListSpec == ListInit /\ [][ListNext]_vars

\* -------------------------------------- the candidates of an episode
\* url_patterns of scrape_episode_data (lines 1266-1279): the names of the
\* candidate URLs, in the order of the list
url_patterns(language) ==
  <<"episode/season-episode", "season-episode", "season-part-hindi",
    "season-episode-hindi">>
  \o (IF language THEN <<"season-part-lang", "season-episode-lang">>
      ELSE <<>>)

\* what the GET of a candidate and the handling of its page end with: a
\* page that is parsed, a 200 page whose title says 404 or is missing, a 404
\* status, another 2xx status, another error status, a network failure,
\* a page parse_episode fails on
EpOutcomes ==
  {"ok", "notfound_page", "status404", "other2xx", "status500", "network",
   "parse"}

\* the exception the handling of a candidate raises inside the try
EpRaises(o) ==
  CASE o = "status500" -> <<Exc("HTTPStatusError", 500)>>
    [] o = "network" -> <<Exc("RequestError", 0)>>
    [] o = "parse" -> <<Exc("Exception", 0)>>
    [] OTHER -> <<>>

\* the handlers forget the exception
LastError_forget(o, prev) == prev

\* last_error after a candidate (lines 1310-1317)
LastError(o, prev) == IF EpRaises(o) # <<>> THEN EpRaises(o) ELSE prev

notEp ==
  <<resolver, passVars, concVars, fanVars, searchVars, listVars, animeVars,
    typeVars, toonVars>>

EpInit ==
  /\ ResolverIdle
  /\ PassIdle
  /\ ConcIdle
  /\ FanIdle
  /\ SearchIdle
  /\ ToonIdle
  /\ TypeIdle
  /\ AnimeIdle
  /\ ListIdle
  /\ ep_request \in [args_ok : BOOLEAN, language : BOOLEAN]
  /\ ep_tried = <<>>
  /\ last_error = <<>>
  /\ episode_data = 0
  /\ ep_status = 0

\* lines 1257-1258: season < 1 or episode < 1
EpReject ==
  /\ ep_status = 0
  /\ ~ep_request.args_ok
  /\ ep_status' = 400
  /\ UNCHANGED <<ep_request, ep_tried, last_error, episode_data>>
  /\ UNCHANGED notEp

\* one iteration of the for loop of lines 1285-1317
TryCandidate ==
  /\ ep_status = 0
  /\ ep_request.args_ok
  /\ episode_data = 0
  /\ Len(ep_tried) < Len(url_patterns(ep_request.language))
  /\ \E o \in EpOutcomes :
       /\ ep_tried' = Append(ep_tried,
            [url |-> url_patterns(ep_request.language)[Len(ep_tried) + 1],
             o |-> o])
       /\ last_error' = LastError(o, last_error)
       /\ episode_data' = IF o = "ok" THEN Len(ep_tried) + 1 ELSE 0
  /\ UNCHANGED <<ep_request, ep_status>>
  /\ UNCHANGED notEp

\* lines 1319-1331: after the loop
EpisodeOutcome ==
  /\ ep_status = 0
  /\ ep_request.args_ok
  /\ episode_data # 0 \/ Len(ep_tried) = Len(url_patterns(ep_request.language))
  /\ ep_status' =
       IF episode_data # 0 THEN 200
       ELSE IF last_error # <<>>
       THEN IF IsInstance(last_error[1], "HTTPStatusError")
               /\ last_error[1].status = 404
            THEN 404 ELSE 502
       ELSE 404
  /\ UNCHANGED <<ep_request, ep_tried, last_error, episode_data>>
  /\ UNCHANGED notEp

EpNext ==
  \/ EpReject
  \/ TryCandidate
  \/ EpisodeOutcome

EpSpec == EpInit /\ [][EpNext]_vars

\* ------------------------------------------- the anime series detail
\* an activation of scrape_anime_series_detail: its arguments, its
\* position, and the status it ends with (200 for a returned detail)
AnimeFrame(slug, title, retry, inc) ==
  [series_slug |-> slug,
   original_title |-> IF title = "" THEN slug ELSE title,
   retry_from_search |-> retry,
   include_servers |-> inc,
   pc |-> "get", out |-> 0]

\* what the GET of the series page and its parse end with; "notitle" is a
\* 200 page without h1
SeriesOutcomes ==
  {"ok", "notitle", "status404", "status500", "network", "parse"}

\* the status the activation ends with, 0 when it goes on to the fallback
SeriesStatus(o) ==
  CASE o = "ok" -> 200
    [] o = "notitle" -> 404
    [] o = "status404" -> 0
    [] o = "status500" -> 502
    [] o = "network" -> 503
    [] o = "parse" -> 500

\* what the fallback search ends with: a best match whose URL holds a
\* slug, one whose URL holds none, no result or an exception
FallbackOutcomes == {"match", "noslug", "none"}

\* the flag is not looked at
MayRetry_always(f) == TRUE

\* line 2552: not _retry_from_search
MayRetry(f) == ~f.retry_from_search

notAnime ==
  <<resolver, passVars, concVars, fanVars, searchVars, listVars, epVars,
    typeVars, toonVars>>

AnimeInit ==
  /\ ResolverIdle
  /\ PassIdle
  /\ ConcIdle
  /\ FanIdle
  /\ SearchIdle
  /\ ToonIdle
  /\ TypeIdle
  /\ ListIdle
  /\ EpIdle
  /\ \E title \in {"", "title"}, inc \in BOOLEAN :
        an_stack = <<AnimeFrame("slug", title, FALSE, inc)>>
  /\ an_log = <<>>
  /\ an_status = 0

AnCur == an_stack[Len(an_stack)]

\* lines 2161-2508 and the handlers of 2510-2578 but the fallback
SeriesGet ==
  /\ an_stack # <<>> /\ AnCur.pc = "get"
  /\ \E o \in SeriesOutcomes :
       /\ an_log' = Append(an_log, [ev |-> "get", slug |-> AnCur.series_slug,
                                     level |-> Len(an_stack), o |-> o])
       /\ an_stack' = [an_stack EXCEPT ![Len(an_stack)] =
            IF SeriesStatus(o) = 0 THEN [@ EXCEPT !.pc = "search"]
            ELSE [@ EXCEPT !.pc = "done", !.out = SeriesStatus(o)]]
  /\ UNCHANGED an_status
  /\ UNCHANGED notAnime

\* lines 2513-2567: the fallback search, up to the recursive call or the 404
FallbackSearch ==
  /\ an_stack # <<>> /\ AnCur.pc = "search"
  /\ \E o \in FallbackOutcomes :
       /\ an_log' = Append(an_log, [ev |-> "search",
                                     slug |-> AnCur.original_title,
                                     level |-> Len(an_stack), o |-> o])
       /\ an_stack' =
            IF o = "match" /\ MayRetry(AnCur)
            THEN Append([an_stack EXCEPT ![Len(an_stack)].pc = "await"],
                        AnimeFrame("correct_slug", AnCur.original_title,
                                   TRUE, FALSE))
            ELSE [an_stack EXCEPT ![Len(an_stack)] =
                    [@ EXCEPT !.pc = "done", !.out = 404]]
  /\ UNCHANGED an_status
  /\ UNCHANGED notAnime

\* an activation ends: the top-level one answers the client; the retry
\* returns its detail to line 2559 or raises into the except of line 2560
AnimeReturn ==
  /\ an_stack # <<>> /\ AnCur.pc = "done"
  /\ IF Len(an_stack) = 1
     THEN /\ an_status' = AnCur.out
          /\ an_stack' = <<>>
     ELSE /\ an_status' = an_status
          /\ an_stack' = [SubSeq(an_stack, 1, Len(an_stack) - 1)
                            EXCEPT ![Len(an_stack) - 1] =
                              [@ EXCEPT !.pc = "done",
                                        !.out = IF AnCur.out = 200 THEN 200
                                                ELSE 404]]
  /\ UNCHANGED an_log
  /\ UNCHANGED notAnime

AnimeNext ==
  \/ SeriesGet
  \/ FallbackSearch
  \/ AnimeReturn

AnimeSpec == AnimeInit /\ [][AnimeNext]_vars

\* ------------------------------------------------ the type of a server
\* the URLs get_server_type is applied to: a host, a path segment and a
\* file name with or without a media extension
TypeHosts ==
  {"site.example", "dood.example", "streamtape.com", "mixdrop.co",
   "drive.google.com", "cdn.example"}

TypeSegments == {"e", "embed", "Embed", "iframe", "direct"}

TypeExtensions == {<<>>, <<".mp4">>, <<".MP4">>, <<".m3u8">>}

TypeUrls ==
  {<<"https:", "//", h, "/", seg, "/", "1">> \o ext :
     h \in TypeHosts, seg \in TypeSegments, ext \in TypeExtensions}

notType ==
  <<resolver, passVars, concVars, fanVars, searchVars, listVars, epVars,
    animeVars, toonVars>>

TypeInit ==
  /\ ResolverIdle
  /\ PassIdle
  /\ ConcIdle
  /\ FanIdle
  /\ SearchIdle
  /\ ToonIdle
  /\ ListIdle
  /\ EpIdle
  /\ AnimeIdle
  /\ type_url \in TypeUrls
  /\ server_type = ""

\* a caller builds a server entry: type=get_server_type(url)
TypeServer ==
  /\ server_type = ""
  /\ server_type' = get_server_type(type_url)
  /\ UNCHANGED type_url
  /\ UNCHANGED notType

TypeNext == TypeServer

TypeSpec == TypeInit /\ [][TypeNext]_vars

\* ------------------------------- the candidates of a toonstream movie
\* base_url of the movie page
ToonBase == BaseUrl(B)

TR == <<"https:", "//", "host.example", "/", "?trembed=", "1">>

\* the references the page may hold: an embed URL in three spellings
\* (absolute, protocol-relative, root-relative), an embed-proxy URL, a
\* media URL, a relative path, a social link
ToonLinks == {B, PRB, Tail(Tail(Tail(B))), TR, M2, RelM, FB}

\* lines 3446-3448: the normalised href, None when the candidate is skipped
ToonNormalize(href) ==
  IF StartsWithPR(href) THEN AddScheme(href)
  ELSE IF StartsWithSlash(href) THEN ToonBase \o href
  ELSE IF HttpSchemeCS(href) THEN href
  ELSE None

\* no candidate counts as seen
Seen_never(href, processed) == FALSE

\* line 3450: href in processed_candidates
Seen(href, processed) == href \in processed

\* lines 3454-3455
ToonJunk(href) ==
  HasAny(Lower(href), {"login", "signup", "advert", "facebook", "twitter",
                       "instagram", "google", "analytics", "wp-json", "#"})

\* line 3459: 'trembed=' in href or '/embed/' in href
NeedsResolve(href) == HasWord(href, "trembed=") \/ HasPath(href, "embed")

\* lines 3471-3477: is_video or 'trembed' in href
KeepLink(href) ==
  \/ HasAny(Lower(href), {"mp4", "m3u8", "stream", "cdn", "video", "watch",
                          "player", "drive.google", "dood", "vid", "upload"})
  \/ HasWord(href, "trembed")

\* `if x not in links: links.append(x)`
AppendNew(links, x) ==
  IF \E i \in DOMAIN links : links[i] = x THEN links ELSE Append(links, x)

\* the sequence without the repetitions of earlier elements
Dedup(links) ==
  SelectSeq([i \in DOMAIN links |->
               IF \E j \in 1..(i - 1) : links[j] = links[i] THEN None
               ELSE links[i]],
            LAMBDA x : x # None)

notToon ==
  <<resolver, passVars, concVars, fanVars, searchVars, listVars, epVars,
    animeVars, typeVars>>

ToonInit ==
  /\ ResolverIdle
  /\ PassIdle
  /\ ConcIdle
  /\ FanIdle
  /\ SearchIdle
  /\ ListIdle
  /\ EpIdle
  /\ AnimeIdle
  /\ TypeIdle
  /\ candidate_links \in UNION {[1..n -> ToonLinks] : n \in 0..MaxCandidates}
  /\ tc_idx = 1
  /\ processed_candidates = {}
  /\ streaming_links = <<>>
  /\ toon_calls = <<>>
  /\ toon_servers = <<>>
  /\ toon_phase = "candidates"

\* one iteration of the loop of lines 3444-3479 over a candidate that is
\* skipped: not a URL, seen before, or junk
SkipCandidate ==
  /\ toon_phase = "candidates"
  /\ tc_idx <= Len(candidate_links)
  /\ LET href == ToonNormalize(candidate_links[tc_idx])
     IN /\ href = None \/ Seen(href, processed_candidates) \/ ToonJunk(href)
        /\ processed_candidates' =
             IF href = None \/ Seen(href, processed_candidates)
             THEN processed_candidates
             ELSE processed_candidates \cup {href}
  /\ tc_idx' = tc_idx + 1
  /\ UNCHANGED <<candidate_links, streaming_links, toon_calls, toon_servers,
                 toon_phase>>
  /\ UNCHANGED notToon

\* one iteration over a candidate that is processed: the call of resolve
\* for an embed, and the two appends
ProcessCandidate ==
  /\ toon_phase = "candidates"
  /\ tc_idx <= Len(candidate_links)
  /\ LET href == ToonNormalize(candidate_links[tc_idx])
     IN /\ href # None
        /\ ~Seen(href, processed_candidates)
        /\ ~ToonJunk(href)
        /\ processed_candidates' = processed_candidates \cup {href}
        /\ \E r \in (IF NeedsResolve(href) THEN Resolved(href) ELSE {None}) :
              LET links == IF r # None THEN AppendNew(streaming_links, r)
                           ELSE streaming_links
                  used == IF r # None THEN r ELSE href
              IN /\ toon_calls' = IF NeedsResolve(href)
                                   THEN Append(toon_calls, href)
                                   ELSE toon_calls
                 /\ streaming_links' = IF KeepLink(used)
                                        THEN AppendNew(links, used)
                                        ELSE links
  /\ tc_idx' = tc_idx + 1
  /\ UNCHANGED <<candidate_links, toon_servers, toon_phase>>
  /\ UNCHANGED notToon

\* lines 3481-3506: one server entry per link not met before
BuildServers ==
  /\ toon_phase = "candidates"
  /\ tc_idx > Len(candidate_links)
  /\ toon_servers' =
       [k \in DOMAIN Dedup(streaming_links) |->
          StreamingServer(<<"Server", k>>, Dedup(streaming_links)[k], None,
                          get_server_type(Dedup(streaming_links)[k]))]
  /\ toon_phase' = "servers"
  /\ UNCHANGED <<candidate_links, tc_idx, processed_candidates,
                 streaming_links, toon_calls>>
  /\ UNCHANGED notToon

ToonNext ==
  \/ SkipCandidate
  \/ ProcessCandidate
  \/ BuildServers

ToonSpec == ToonInit /\ [][ToonNext]_vars

\* ================================================================ claims
Run1Gets == SelectSeq(gets, LAMBDA g : g.run = 1)

\* C1: a call with max_depth <= 0, at the top level or in a recursion, gives
\* nothing and issues no GET: every GET comes from a call of depth >= 1, an
\* activation of depth <= 0 never leaves the guard, and a top-level call
\* with max_depth <= 0 ends with nothing and without any GET.
C1_DepthGuardFirst ==
  /\ \A i \in DOMAIN gets : gets[i].depth >= 1
  /\ \A i \in DOMAIN stack :
       stack[i].depth <= 0 =>
         /\ stack[i].pc \in {"entry", "return"}
         /\ stack[i].pc = "return" => stack[i].val = None /\ stack[i].by = "guard"
  /\ top.depth <= 0 =>
       /\ gets = <<>>
       /\ \A i \in DOMAIN results : results[i] = None

C1_Witness ==
  /\ top.depth <= 0 /\ top.url = A /\ Len(results) >= 1
  /\ results[1] = None /\ gets = <<>>

\* the words of the spec: a non-media extension or a static-asset directory
AssetUrl(u) ==
  \/ \E i \in DOMAIN u :
        LowerTok(u[i]) \in {".css", ".js", ".json", ".xml", ".txt", ".pdf", ".zip",
                            ".rar", ".jpg", ".jpeg", ".png", ".gif", ".svg", ".ico"}
  \/ \E i \in DOMAIN u :
        /\ i + 2 <= Len(u)
        /\ u[i] \in {"/", "//"} /\ u[i + 2] \in {"/", "//"}
        /\ LowerTok(u[i + 1]) \in {"wp-content", "wp-includes", "themes", "plugins",
                                   "assets", "static", "css", "js", "fonts", "images"}

\* C2: no GET is ever issued to a URL matching a non-media asset pattern,
\* whether the URL is the top-level one or an iframe or redirect target; an
\* activation for such a URL with max_depth > 0 ends at the filter with
\* nothing.
C2_AssetNeverFetched ==
  /\ \A i \in DOMAIN gets : ~AssetUrl(gets[i].url)
  /\ \A i \in DOMAIN stack :
       AssetUrl(stack[i].url) /\ stack[i].depth > 0 =>
         /\ stack[i].pc \in {"entry", "return"}
         /\ stack[i].pc = "return" => stack[i].val = None
  /\ AssetUrl(top.url) => \A i \in DOMAIN results : results[i] = None

C2_Witness ==
  /\ Len(stack) >= 2
  /\ AssetUrl(Cur.url) /\ Cur.depth > 0
  /\ Cur.pc = "return" /\ Cur.by = "filter"

\* C3: a top-level call never raises: its caller gets nothing or a URL.
C3_NeverRaises ==
  \A i \in DOMAIN results : results[i] # Raised

C3_Witness ==
  /\ Len(results) >= 1 /\ results[1] = None
  /\ \E i \in DOMAIN gets :
       /\ gets[i].level >= 2
       /\ pages[gets[i].url].status \in {"error", "badbody"}
  /\ \E i \in DOMAIN gets :
       gets[i].level = 1 /\ pages[gets[i].url].status = "ok"

\* a page that holds one iframe and nothing else
LinkPage(src) == Page("ok", << El("iframe", << <<"src", src>> >>) >>)

\* C4: every recursive call runs with its caller's max_depth minus 1, so the
\* activations carry max_depth, max_depth-1, ...; every GET is issued at a
\* depth >= 1; and a chain of iframe-only pages longer than max_depth ends
\* with nothing.
C4_DepthDecreases ==
  /\ \A i \in DOMAIN stack : stack[i].depth = top.depth - (i - 1)
  /\ \A i \in DOMAIN gets : gets[i].depth = top.depth - (gets[i].level - 1)
  /\ \A i \in DOMAIN gets : gets[i].depth >= 1
  /\ ( /\ top.url = A /\ Len(results) >= 1
       /\ A \in DOMAIN pages /\ pages[A] = LinkPage(PRB)
       /\ B \in DOMAIN pages => pages[B] = LinkPage(A) )
     => results[1] = None

C4_Witness ==
  /\ top.url = A /\ top.depth = 2
  /\ Len(stack) = 3 /\ stack[3].depth = 0
  /\ pages[A] = LinkPage(PRB) /\ pages[B] = LinkPage(A)

\* C5: every top-level call returns, also when the pages embed each other
\* in a cycle; a page that embeds itself is fetched again on each level
\* until the depth is used up (max_depth GETs for a call of depth max_depth).
C5_Terminates ==
  /\ <>Done
  /\ []( ( /\ top.url = A /\ top.depth >= 1 /\ Len(results) >= 1
           /\ A \in DOMAIN pages /\ pages[A] = LinkPage(A) )
         => /\ Len(Run1Gets) = top.depth
            /\ \A i \in DOMAIN Run1Gets : Run1Gets[i].url = A )

C5_Witness ==
  /\ Done
  /\ top.url = A /\ top.depth >= 2
  /\ pages[A] = LinkPage(A)
  /\ Len(Run1Gets) >= 2 /\ Run1Gets[1].url = Run1Gets[2].url

Order == <<"video", "iframes", "scripts", "data", "anchors", "redirect">>

Pos(name) == MinOf({k \in DOMAIN Order : Order[k] = name})

\* what a strategy without recursion finds in a page
Finds(name, f) ==
  CASE name = "video" -> VideoScan(pages[f.url], f.url)
    [] name = "scripts" -> ScriptScan(pages[f.url])
    [] name = "data" -> DataScan(pages[f.url])
    [] name = "anchors" -> AnchorScan(pages[f.url], f.url)
    [] OTHER -> None

Assigned(page) ==
  {page.elems[i].text[k].val :
     <<i, k>> \in {c \in (DOMAIN page.elems) \X (1..3) :
                     c[2] \in DOMAIN page.elems[c[1]].text
                     /\ page.elems[c[1]].text[c[2]].key \in
                          {"file", "src", "url", "video", "source"}}}
  \cup
  {page.elems[i].attrs[k][2] :
     <<i, k>> \in {c \in (DOMAIN page.elems) \X (1..3) :
                     c[2] \in DOMAIN page.elems[c[1]].attrs
                     /\ page.elems[c[1]].attrs[c[2]][1] \in
                          {"data-src", "data-url", "data-video", "data-file"}}}

\* C7: a protocol-relative media URL in a script variable or a data-*
\* attribute is used as a candidate in its https:// form: a level whose
\* generic scan ends with nothing had no such candidate on its page, and no
\* result starts with //.
C7_ProtocolRelativeUsed ==
  /\ \A i \in DOMAIN results : ~StartsWithPR(results[i])
  /\ \A i \in DOMAIN stack :
       (stack[i].pc = "return" /\ stack[i].by = "end") =>
         ~\E v \in Assigned(pages[stack[i].url]) :
             /\ StartsWithPR(v)
             /\ HasAny(Lower(v), {".mp4", ".m3u8"})
             /\ ~HasAny(Lower(v), exclude_keywords)

\* C8: two calls with the same URL and max_depth over the same content
\* give the same result.
C8_SameResultTwice ==
  Len(results) >= 2 => results[2] = results[1]

C8_Witness ==
  /\ Len(results) = 2 /\ results[1] # None
  /\ \E i \in DOMAIN gets : gets[i].run = 2 /\ gets[i].level = 2

\* the <source> children of the page's video element whose src is an
\* absolute http(s) URL with a media extension
MediaSources(page) ==
  {i \in DOMAIN page.elems :
     /\ page.elems[i].tag = "source"
     /\ page.elems[i].parent = Find(page, "video")
     /\ Attr(page.elems[i], "src") # None
     /\ HttpSchemeCS(Attr(page.elems[i], "src"))
     /\ \E k \in DOMAIN Attr(page.elems[i], "src") :
          LowerTok(Attr(page.elems[i], "src")[k]) \in {".mp4", ".m3u8", ".webm", ".mkv", ".flv"}}

C9_Case ==
  /\ top.url = A /\ top.depth = 2 /\ Len(results) >= 1
  /\ A \in DOMAIN pages /\ pages[A].status = "ok"
  /\ Find(pages[A], "video") # 0
  /\ Find(pages[A], "iframe") = 0

OwnVideoUrl(page, embed) ==
  \E n \in {"src", "data-src", "data-url"} :
     LET v == Attr(page.elems[Find(page, "video")], n)
     IN \/ StartsWithHttp(v)
        \/ StartsWithSlash(v)

\* the first <source> child of the page's video element, 0 when none
FirstSource(page) ==
  MinOf({i \in DOMAIN page.elems :
           page.elems[i].tag = "source" /\ page.elems[i].parent = Find(page, "video")})

FilePage(url) == Page("ok", << Script(<< St("file", url) >>) >>)

\* the absolute .m3u8 URLs
M3u8Urls == {M2, MAds}

C10_Case ==
  /\ top.url = A /\ top.depth = 2 /\ Len(results) >= 1
  /\ A \in DOMAIN pages /\ pages[A] = LinkPage(PRB)

\* C10 as stated: the outer page holds only the iframe //host/embed/xyz and
\* the embed page a script file: "<absolute .m3u8 URL>"; the call returns
\* that URL and the embed page is fetched by a call of depth 1.
C10_AsStated ==
  C10_Case =>
    /\ B \in DOMAIN pages
    /\ \A i \in DOMAIN Run1Gets : Run1Gets[i].url = B => Run1Gets[i].depth = 1
    /\ \A m \in M3u8Urls : pages[B] = FilePage(m) => results[1] = m

\* C10 amended: the same, for a .m3u8 URL that holds none of the excluded
\* keywords of the script scan.
C10_IframeThenScript ==
  C10_Case =>
    /\ B \in DOMAIN pages
    /\ \A i \in DOMAIN Run1Gets :
         Run1Gets[i].url = B => Run1Gets[i].depth = 1 /\ Run1Gets[i].level = 2
    /\ \A m \in M3u8Urls :
         (pages[B] = FilePage(m) /\ ~HasAny(Lower(m), exclude_keywords))
            => results[1] = m

C10_Witness ==
  /\ C10_Case
  /\ pages[B] = FilePage(M2)
  /\ results[1] = M2

\* the host of the URL is a social network or an ad or analytics host
DenyHost(u) ==
  /\ Len(u) >= 3
  /\ Subs(LowerTok(u[3])) \cap
       {"facebook", "twitter", "instagram", "google", "ads", "advertisement"} # {}

\* a page that holds one iframe to a denylisted host and nothing else
DenyOnly(page) ==
  /\ page.status = "ok" /\ Len(page.elems) = 1
  /\ page.elems[1].tag = "iframe"
  /\ Len(page.elems[1].attrs) = 1
  /\ page.elems[1].attrs[1][1] = "src"
  /\ DenyHost(page.elems[1].attrs[1][2])

\* C11: an iframe whose target host is on the denylist is never recursed
\* into and never fetched: no activation called for an iframe target has a
\* denylisted host, no GET goes to a denylisted host, and a call for a page
\* whose only content is such an iframe gives nothing.
C11_DenylistedNeverFollowed ==
  /\ \A i \in DOMAIN stack :
       (i >= 2 /\ stack[i - 1].pc \in {"iwait", "pwait"}) => ~DenyHost(stack[i].url)
  /\ \A i \in DOMAIN gets : ~DenyHost(gets[i].url)
  /\ ( /\ Len(results) >= 1 /\ top.url \in DOMAIN pages
       /\ DenyOnly(pages[top.url]) )
     => results[1] = None

\* the URLs that match no provider and no non-media pattern
ChainUrls == {A, P1, P2}

\* the recorded page of u holds one iframe to a chain URL and nothing else
LinksTo(u, v) == u \in DOMAIN pages /\ pages[u] = LinkPage(v)

\* the link the scan of a page without iframes and redirects finds
DirectLink(u) ==
  IF VideoScan(pages[u], u) # None THEN VideoScan(pages[u], u)
  ELSE IF ScriptScan(pages[u]) # None THEN ScriptScan(pages[u])
  ELSE IF DataScan(pages[u]) # None THEN DataScan(pages[u])
  ELSE AnchorScan(pages[u], u)

\* the recorded page of u holds a direct media link and nothing to follow
HoldsLink(u) ==
  /\ u \in DOMAIN pages /\ pages[u].status = "ok"
  /\ Find(pages[u], "iframe") = 0
  /\ \A j \in DOMAIN pages[u].elems :
        RedirectTarget(pages[u].elems[j]) = None
  /\ DirectLink(u) # None

\* the number of iframe hops from u along link-only pages, at most n
RECURSIVE Hops(_, _)
Hops(u, n) ==
  IF n <= 0 \/ ~\E v \in ChainUrls : LinksTo(u, v) THEN 0
  ELSE 1 + Hops(CHOOSE v \in ChainUrls : LinksTo(u, v), n - 1)

\* the page reached after these hops
RECURSIVE ChainEnd(_, _)
ChainEnd(u, n) ==
  IF n <= 0 \/ ~\E v \in ChainUrls : LinksTo(u, v) THEN u
  ELSE ChainEnd(CHOOSE v \in ChainUrls : LinksTo(u, v), n - 1)

C13_FetchedOncePerLevel ==
  \A i \in DOMAIN stack : stack[i].nget <= 1

\* the subsequence of the values of s that are not None
RECURSIVE NotNone(_)
NotNone(s) ==
  IF s = <<>> THEN <<>>
  ELSE IF Head(s) = None THEN NotNone(Tail(s))
  ELSE <<Head(s)>> \o NotNone(Tail(s))

\* the recursive calls the iframe loop of an activation has made
IframeCalls(f) == SelectSeq(f.calls, LAMBDA c : c.via = "iwait")

\* C14: the iframes of a page are tried in document order: the recursive
\* calls of the iframe loop go to the acceptable targets in their order;
\* a call that gives nothing is followed by the next iframe, so that only
\* the last call made can have given a URL; a level that returns from the
\* loop returns what that call gave; and a level that went past the loop
\* has tried every acceptable iframe.
C14_IframesInOrder ==
  \A i \in DOMAIN stack :
     LET f == stack[i]
         ic == IframeCalls(f)
         targets == IF f.url \in DOMAIN pages /\ pages[f.url].status = "ok"
                    THEN NotNone(Doc(f.url).iframes) ELSE <<>>
     IN /\ Len(ic) <= Len(targets)
        /\ \A k \in DOMAIN ic : ic[k].url = targets[k]
        /\ \A k \in DOMAIN ic : k < Len(ic) => ic[k].ret = None
        /\ (f.pc = "return" /\ f.by = "iframes") =>
              /\ ic # <<>>
              /\ ic[Len(ic)].ret # None
              /\ f.val = ic[Len(ic)].ret
        /\ (ic # <<>> /\ (Len(f.tried) >= 3 \/ f.pc = "iframes")) =>
              ic[Len(ic)].ret = None
        /\ Len(f.tried) >= 3 => Len(ic) = Len(targets)

\* the first iframe gave nothing and the second one gave the result
C14_Witness ==
  /\ Running("return") /\ Cur.by = "iframes"
  /\ Len(IframeCalls(Cur)) = 2
  /\ IframeCalls(Cur)[1].ret = None
  /\ IframeCalls(Cur)[2].ret # None

\* the values the patterns of the script scan match in the scripts of a page
ScriptMatches(page) ==
  {page.elems[c[1]].text[c[2]].val :
     c \in {c \in (DOMAIN page.elems) \X (1..3) :
              /\ page.elems[c[1]].tag = "script"
              /\ c[2] \in DOMAIN page.elems[c[1]].text
              /\ \E p \in DOMAIN script_patterns :
                    PatMatches(script_patterns[p], page.elems[c[1]].text[c[2]])}}

\* the value starts with an http(s) scheme, holds a video indicator and
\* holds no tracking, ad or social keyword
PassesAll(v) ==
  /\ Len(v) > 0 /\ LowerTok(v[1]) \in {"http:", "https:"}
  /\ \E i \in DOMAIN v : Subs(LowerTok(v[i])) \cap video_indicators # {}
  /\ \A i \in DOMAIN v : Subs(LowerTok(v[i])) \cap exclude_keywords = {}

\* C15: a URL returned by the script scan is a match that passes the three
\* tests, and a level whose script scan gave nothing had no match passing
\* them on its page: a failing match does not end the scan.
C15_ScriptFilter ==
  \A i \in DOMAIN stack :
     LET f == stack[i]
     IN /\ (f.pc = "return" /\ f.by = "scripts") =>
             /\ f.val \in ScriptMatches(pages[f.url])
             /\ PassesAll(f.val)
        /\ Len(f.tried) >= 4 =>
             \A v \in ScriptMatches(pages[f.url]) : ~PassesAll(v)

\* a match with an excluded keyword is skipped and a later script gives the
\* result
C15_Witness ==
  /\ Running("return") /\ Cur.by = "scripts" /\ Cur.val = M2
  /\ MAds \in ScriptMatches(pages[Cur.url])
  /\ Plain \in ScriptMatches(pages[Cur.url])

\* the value looks like a playable media reference: an http(s) URL holding
\* a media extension or the name of a provider, a stream or a CDN
LooksPlayable(v) ==
  /\ Len(v) > 0 /\ LowerTok(v[1]) \in {"http:", "https:"}
  /\ \E i \in DOMAIN v :
        Subs(LowerTok(v[i])) \cap
          {".mp4", ".m3u8", ".webm", ".mkv", ".flv", "video", "stream", "cdn",
           "media", "dood", "streamtape", "mixdrop"} # {}

\* C16: a URL that a provider block extracts from its page and returns is
\* in its https:// form and looks like a playable media reference.
C16_ProviderValidated ==
  \A i \in DOMAIN stack :
     LET f == stack[i]
     IN ( /\ f.pc = "return"
          /\ f.by \in {"dood", "streamtape", "mixdrop", "vidstream", "trembed"}
          /\ f.val # f.ret )
        => /\ ~StartsWithPR(f.val)
           /\ LooksPlayable(f.val)

\* the server is embed- or iframe-like
IsEmbedLike(server) ==
  \/ server.type \in {"embed", "iframe"}
  \/ \E i \in DOMAIN server.url :
        Subs(LowerTok(server.url[i])) \cap {"embed", "trembed"} # {}

\* the calls of resolve made for the servers before position k
CallsBefore(k) ==
  Cardinality({j \in 1..(k - 1) : IsEmbedLike(servers[j])})

\* C17: the resolve pass gives a list of the same length and order as its
\* input; an entry differs from its server only when the server is
\* embed-like and resolve gave a URL other than the server's own, and then
\* it keeps name and quality, carries that URL and has type "direct"; in
\* every other case the entry is the server itself; and exactly the
\* embed-like servers are passed to resolve, in order.
C17_ResolvePass ==
  /\ Len(resolved_servers) <= Len(servers)
  /\ data_servers # None =>
        /\ Len(data_servers[1]) = Len(servers)
        /\ data_servers[1] = resolved_servers
  /\ Len(passed) = CallsBefore(Len(resolved_servers) + 1)
  /\ \A k \in DOMAIN resolved_servers :
        LET server == servers[k]
            entry == resolved_servers[k]
            call == passed[CallsBefore(k) + 1]
        IN IF IsEmbedLike(server)
           THEN /\ call.url = server.url
                /\ call.depth \in {2, 3}
                /\ IF call.ret # None /\ call.ret # server.url
                   THEN entry = [name |-> server.name, url |-> call.ret,
                                 quality |-> server.quality, type |-> "direct"]
                   ELSE entry = server
           ELSE entry = server

\* a pass that kept a server whose resolve gave its own URL and replaced
\* the next one
C17_Witness ==
  /\ data_servers # None /\ Len(servers) = 2
  /\ IsEmbedLike(servers[1]) /\ IsEmbedLike(servers[2])
  /\ passed[1].ret = servers[1].url
  /\ passed[2].ret = M2
  /\ resolved_servers[1] = servers[1]
  /\ resolved_servers[2].type = "direct" /\ servers[2].type = "embed"

\* C18: a call that ran interleaved with another call gives what the same
\* call gives when it runs without interleaving, for both tasks.
C18_SameAsAlone ==
  /\ Len(results) = Runs => results[1] = results[2]
  /\ Len(other.results) = Runs => other.results[1] = other.results[2]

\* both tasks fetched the embed page, the first call of each was suspended
\* while the other ran, and both calls gave a URL
C18_Witness ==
  /\ Len(results) = Runs /\ Len(other.results) = Runs
  /\ results[1] # None /\ other.results[1] # None
  /\ top.url = V /\ other.top.url = V
  /\ \E i, j, k \in DOMAIN gets :
        /\ i < j /\ j < k
        /\ gets[i].run = 1 /\ gets[j].run = 1 /\ gets[k].run = 1
        /\ gets[i].url = V /\ gets[j].url = V
        /\ gets[i].level = 1 /\ gets[j].level = 1
        /\ gets[k].url = B /\ gets[k].level = 2

\* C19: during the fan-out over the episodes of a series at most 10
\* episode fetches are in progress at any moment, however many episodes
\* there are, and the request ends with every episode processed.
C19_PoolBound ==
  /\ [](Cardinality(InProgress) <= 10)
  /\ <>(phase = "returned")
  /\ []((phase = "returned" /\ include_servers) =>
           \A e \in DOMAIN episodes : episodes[e].state = "done")

\* ten fetches in progress, one episode waiting for the pool
C19_Witness ==
  /\ Len(episodes) > 10
  /\ Cardinality(InProgress) = 10
  /\ Waiting # {}

\* C20: the movie search answers 404 when no movie was found on any
\* scraped page, 502 when the source answered with an HTTP error status,
\* 503 on a network error, and an error status raised while scraping a page
\* is the status the client gets.
C20_SearchStatuses ==
  response # 0 =>
     /\ (raised = <<>>) = (response = 200)
     /\ response = 200 => movies_list > 0
     /\ raised # <<>> =>
          /\ raised[1].class = "HTTPException" => response = raised[1].status
          /\ raised[1].class = "HTTPStatusError" =>
                response = (IF raised[1].status = 404 THEN 404 ELSE 502)
          /\ raised[1].class = "RequestError" => response = 503

LoopEnded == response = 200 \/ (response # 0 /\ Len(raised) = 2)

\* C22: the movie search fetches at most max_pages pages, the first the
\* search URL and each other one the next link of the page before; it ends
\* at the first page without a next link and not before, and it ends after
\* max_pages fetches even when the next links form a cycle.
C22_AtMostMaxPages ==
  /\ [](/\ Len(search_gets) <= request.max_pages
        /\ search_gets # <<>> => search_gets[1].url = 1
        /\ \A i \in 2..Len(search_gets) :
              /\ search_gets[i - 1].next # 0
              /\ search_gets[i].url = search_gets[i - 1].next
        /\ LoopEnded =>
              \/ Len(search_gets) = request.max_pages
              \/ search_gets[Len(search_gets)].next = 0)
  /\ <>(response # 0)

\* a search over next links that form a cycle ended at the page limit
C22_Witness ==
  /\ response # 0
  /\ Len(search_gets) = 2
  /\ request.max_pages = 2
  /\ search_gets[2].next = search_gets[1].url

\* the provider blocks the URL u enters
Blocks(u) == {k \in DOMAIN Providers : ProviderMatches(Providers[k], u)}

\* C23: at every level that ends after a GET of a URL that answers non-200
\* or fails, every provider block the URL enters and the generic fetch have
\* each issued their GET, so a failed provider fetch did not end the level;
\* and a level ended by a non-200 answer to the generic fetch returns
\* nothing, has run no strategy on the body and has made no recursive call.
C23_FetchFailureAbandonsCandidate ==
  \A i \in DOMAIN stack :
     stack[i].pc = "return" =>
        /\ (stack[i].nget > 0 /\ pages[stack[i].url].status # "ok") =>
              /\ stack[i].nget = Cardinality(Blocks(stack[i].url)) + 1
              /\ stack[i].by \in {"status", "except"}
              /\ stack[i].val = None
        /\ stack[i].by = "status" =>
              /\ pages[stack[i].url].status = "non200"
              /\ stack[i].val = None
              /\ stack[i].tried = <<>>
              /\ stack[i].calls = <<>>

\* a dood URL answered non-200 to the provider fetch and to the generic one
C23_Witness ==
  /\ stack # <<>>
  /\ Cur.pc = "return"
  /\ Cur.url = D
  /\ Cur.nget = 2
  /\ Cur.by = "status"
  /\ pages[D].status = "non200"

\* the outcomes that are an error other than a 404 response
EpErrors == {"status500", "network", "parse"}

\* C24: the candidates are fetched in the order of the list; none is
\* fetched after the first that answers 200 with a real page, which is the
\* one used; when every candidate was tried without success the outcome is
\* 502 if some attempt ended with an error other than a 404 response, and
\* 404 otherwise.
C24_CandidatesInOrder ==
  /\ Len(ep_tried) <= Len(url_patterns(ep_request.language))
  /\ \A i \in DOMAIN ep_tried :
        /\ ep_tried[i].url = url_patterns(ep_request.language)[i]
        /\ i < Len(ep_tried) => ep_tried[i].o # "ok"
  /\ (ep_status # 0 /\ ep_request.args_ok) =>
        IF \E i \in DOMAIN ep_tried : ep_tried[i].o = "ok"
        THEN /\ ep_status = 200
             /\ episode_data = Len(ep_tried)
        ELSE /\ Len(ep_tried) = Len(url_patterns(ep_request.language))
             /\ episode_data = 0
             /\ ep_status =
                  IF \E i \in DOMAIN ep_tried : ep_tried[i].o \in EpErrors
                  THEN 502 ELSE 404

\* no candidate succeeded: one failed with a network error, the others
\* answered 404 or a 'not found' page
C24_Witness ==
  /\ ep_status = 502
  /\ Len(ep_tried) = 4
  /\ ep_tried[1].o = "status404"
  /\ ep_tried[2].o = "network"
  /\ ep_tried[3].o = "notfound_page"
  /\ ep_tried[4].o = "status404"

\* the events of one kind in the log of the anime series call
AnEvents(ev) == SelectSeq(an_log, LAMBDA e : e.ev = ev)

\* C25 as stated: the retry that also gets a 404 does not search again,
\* so one top-level call makes at most one fallback search.
C25_AsStated ==
  /\ Len(AnEvents("search")) <= 1
  /\ \A i \in DOMAIN an_log : an_log[i].ev = "search" => an_log[i].level = 1

\* C25 amended: one top-level call fetches at most two series pages, the
\* second with the slug the search found, and is never more than two
\* activations deep; a retry that gets a 404 runs the fallback search once
\* more but makes no further call, and the top-level call then ends with
\* 404.
C25_RetryOnce ==
  /\ Len(an_stack) <= 2
  /\ Len(AnEvents("get")) <= 2
  /\ Len(AnEvents("search")) <= 2
  /\ \A i \in DOMAIN an_log :
        an_log[i].level = 2 =>
          /\ i > 2
          /\ an_log[1].o = "status404"
          /\ an_log[2].ev = "search" /\ an_log[2].o = "match"
          /\ an_log[i].ev = "get" => an_log[i].slug = "correct_slug"
  /\ (an_status # 0 /\ \E i \in DOMAIN an_log :
         an_log[i].level = 2 /\ an_log[i].o = "status404") =>
        an_status = 404

\* the retry got a 404 too, searched again with a match, and the call
\* ended with 404
C25_Witness ==
  /\ an_status = 404
  /\ Len(an_log) = 4
  /\ an_log[3].ev = "get" /\ an_log[3].o = "status404" /\ an_log[3].level = 2
  /\ an_log[4].ev = "search" /\ an_log[4].o = "match" /\ an_log[4].level = 2

\* C26: an episode whose server fetch failed is in the result as it was
\* parsed, the series request does not fail, and the episode list keeps its
\* length and its order whichever order the fetches end in.
C26_FailureIsolated ==
  /\ phase # "failed"
  /\ Len(episodes) = Len(parsed_episodes)
  /\ \A e \in DOMAIN episodes :
        /\ episodes[e].title = parsed_episodes[e].title
        /\ episodes[e].failed =>
              /\ episodes[e].state = "done"
              /\ episodes[e].servers = parsed_episodes[e].servers
        /\ (episodes[e].state = "done" /\ ~episodes[e].failed) =>
              episodes[e].servers = <<"servers">>

\* the detail is returned with the servers of the first and third episode
\* after the fetch of the second one failed
C26_Witness ==
  /\ phase = "returned"
  /\ Len(episodes) >= 3
  /\ episodes[2].failed
  /\ ~episodes[1].failed /\ episodes[1].servers = <<"servers">>
  /\ ~episodes[3].failed /\ episodes[3].servers = <<"servers">>

\* `word in url.lower()` for a word of the type tables
Holds(words) == HasAny(Lower(type_url), words)

\* C27: get_server_type returns one of embed, direct, gdrive, filehost,
\* iframe: embed when the lowered URL holds embed or iframe; else direct
\* when it holds .mp4, .m3u8, direct or cdn; else gdrive when it holds
\* drive.google; else filehost when it holds dood, streamtape or mixdrop;
\* else iframe.
C27_ServerTypePrecedence ==
  server_type # "" =>
    /\ server_type \in {"embed", "direct", "gdrive", "filehost", "iframe"}
    /\ (server_type = "embed") = Holds({"embed", "iframe"})
    /\ (server_type = "direct") =
          (~Holds({"embed", "iframe"})
           /\ Holds({".mp4", ".m3u8", "direct", "cdn"}))
    /\ (server_type = "gdrive") =
          (~Holds({"embed", "iframe", ".mp4", ".m3u8", "direct", "cdn"})
           /\ Holds({"drive.google"}))
    /\ (server_type = "filehost") =
          (~Holds({"embed", "iframe", ".mp4", ".m3u8", "direct", "cdn",
                   "drive.google"})
           /\ Holds({"dood", "streamtape", "mixdrop"}))

\* a URL with Embed in mixed case, a media extension and a file-host name
\* is typed embed
C27_Witness ==
  /\ type_url = <<"https:", "//", "dood.example", "/", "Embed", "/", "1", ".mp4">>
  /\ server_type = "embed"

\* an absolute http(s) URL
IsAbsolute(u) == Len(u) > 2 /\ u[1] \in {"http:", "https:"} /\ u[2] = "//"

\* C28: whatever the pages hold, every result of resolve is nothing or an
\* absolute http(s) URL, never a relative, root-relative or
\* protocol-relative reference.
C28_ResultAbsolute ==
  \A i \in DOMAIN results : results[i] = None \/ IsAbsolute(results[i])

\* C29: no activation recurses into the same iframe target from a
\* provider block and again from the generic iframe step.
C29_TargetOncePerLevel ==
  \A k \in DOMAIN stack :
     \A i, j \in DOMAIN stack[k].calls :
        (stack[k].calls[i].via = "pwait" /\ stack[k].calls[j].via = "iwait") =>
           stack[k].calls[i].url # stack[k].calls[j].url

\* no element of the sequence occurs twice
NoRepeat(q) == \A i, j \in DOMAIN q : i # j => q[i] # q[j]

====
